---- MODULE Spec2Model ----
(***************************************************************************)
(* State-machine model of the creative-dev-lab experiments.                *)
(*                                                                         *)
(* Every experiment is a flat browser script: a synchronous top level      *)
(* that builds the scene and registers handlers, then handlers run by the  *)
(* browser's event loop one at a time (frame callbacks, window listeners,  *)
(* GUI callbacks, asset-load callbacks).  Each experiment that carries     *)
(* state of its own is modelled by one record variable and one             *)
(* specification:                                                          *)
(*   flow  - the flow-field particle demo          (SpecFlow)              *)
(*   ray   - the raycaster experiment              (SpecRay)               *)
(*   lab   - any one script of the repository, by what its top level      *)
(*           registers and starts                  (SpecLab, SpecLabFair)  *)
(*   phys   - the physics experiment               (SpecPhys)              *)
(*   galaxy - the animated galaxy experiment       (SpecGalaxy)            *)
(*   dbg    - the debug UI experiment              (SpecDbg)               *)
(*   models - the imported models experiment       (SpecModels)            *)
(*   render - the realistic render experiment      (SpecRender)            *)
(*                                                                         *)
(* JavaScript numbers are modelled in fixed point: the integer n stands    *)
(* for the number n / SCALE.  A non-finite result is the single value     *)
(* NaN, which every arithmetic operation propagates and every comparison   *)
(* answers with false, as IEEE-754 NaN does (the one division of the       *)
(* model that can have a zero divisor, dx / dist, has dx = 0 then).        *)
(***************************************************************************)
EXTENDS Integers, Sequences, FiniteSets, TLC

VARIABLES flow, lab, ray, phys, galaxy, dbg, models, render

vars == <<flow, lab, ray, phys, galaxy, dbg, models, render>>

\* the value of the variable of an experiment that is not the one running
Off == [pc |-> "off"]

----------------------------------------------------------------------------
(* Bounds of the model *)

\* particles simulated (PARTICLE_COUNT is 5000 in the source)
MaxParticles == 2
\* frames run after the top level's own animate() call
MaxFrames == 12
\* input events (mousemove, resize) delivered
MaxEvents == 2
\* input events delivered to an experiment page of the catalog
MaxLabEvents == 2
\* frames of the raycaster experiment after the top level's own tick()
MaxRayFrames == 4
\* input events (mousemove, click, resize, orbit drag) of the raycaster
MaxRayEvents == 3
\* frames of the physics experiment after the top level's own tick()
MaxPhysFrames == 16
\* objects created from the GUI of the physics experiment
MaxPhysCreations == 1
\* frames of the galaxy experiment after the top level's own tick()
MaxGalaxyFrames == 3
\* GUI changes and window resizes of the galaxy experiment
MaxGalaxyEvents == 2
\* frames of the debug UI experiment after the top level's own tick()
MaxDbgFrames == 2
\* GUI inputs of the debug UI experiment
MaxDbgEvents == 3
\* frames of the imported models experiment after the top level's own tick()
MaxModelsFrames == 3
\* progress callbacks of the model load
MaxModelsProgress == 2
\* frames of the realistic render experiment after the top level's own tick()
MaxRenderFrames == 2
\* finished tone-mapping changes of the realistic render experiment
MaxRenderEvents == 2

----------------------------------------------------------------------------
(* Fixed-point arithmetic standing for JavaScript's Number *)

\* one unit of the fixed point is 0.001
SCALE == 10 * 10 * 10

\* the non-finite Number (0/0, and everything computed from it)
NaN == 2 ^ 30

IsFinite(a) == a # NaN

Abs(n) == IF n < 0 THEN -n ELSE n

\* n / d rounded to the nearest integer, halves away from zero (d > 0)
RoundDiv(n, d) ==
    IF n >= 0 THEN (2 * n + d) \div (2 * d) ELSE -((2 * (-n) + d) \div (2 * d))

Add(a, b) == IF a = NaN \/ b = NaN THEN NaN ELSE a + b

Sub(a, b) == IF a = NaN \/ b = NaN THEN NaN ELSE a - b

Neg(a) == IF a = NaN THEN NaN ELSE -a

Mul(a, b) == IF a = NaN \/ b = NaN THEN NaN ELSE RoundDiv(a * b, SCALE)

\* a / b: 0 / 0 is NaN and x / 0 is +/-Infinity, both non-finite
Div(a, b) ==
    IF a = NaN \/ b = NaN \/ b = 0 THEN NaN
    ELSE IF b > 0 THEN RoundDiv(a * SCALE, b) ELSE -RoundDiv(a * SCALE, -b)

\* a < b and a > b of JavaScript: false as soon as one side is NaN
Lt(a, b) == a # NaN /\ b # NaN /\ a < b

Gt(a, b) == a # NaN /\ b # NaN /\ a > b

RECURSIVE SqrtSearch(_, _, _)
\* the largest r in lo..hi with r * r <= n (lo * lo <= n < (hi + 1)^2)
SqrtSearch(n, lo, hi) ==
    IF lo >= hi THEN lo
    ELSE LET mid == (lo + hi + 1) \div 2
         IN  IF mid * mid <= n THEN SqrtSearch(n, mid, hi)
             ELSE SqrtSearch(n, lo, mid - 1)

\* floor of the square root of a natural number below 2^31
ISqrt(n) == SqrtSearch(n, 0, 46340)

\* Math.sqrt(a*a + b*b + c*c): zero exactly when a = b = c = 0.  Exact to
\* one unit while every term is below 26, and to ten units beyond (the
\* squares are then taken of the tenths, to stay within 32 bits)
Hypot3(a, b, c) ==
    IF a = NaN \/ b = NaN \/ c = NaN THEN NaN
    ELSE IF Abs(a) < 26 * SCALE /\ Abs(b) < 26 * SCALE /\ Abs(c) < 26 * SCALE
         THEN ISqrt(a * a + b * b + c * c)
         ELSE 10 * ISqrt((Abs(a) \div 10) * (Abs(a) \div 10)
                         + (Abs(b) \div 10) * (Abs(b) \div 10)
                         + (Abs(c) \div 10) * (Abs(c) \div 10))

\* Math.sqrt(a*a + b*b)
Hypot2(a, b) == Hypot3(a, b, 0)

PI == 3142

\* sin on [0, PI] (Bhaskara's rational approximation, exact at 0, PI/2, PI)
SinHalf(x) ==
    RoundDiv(16 * x * (PI - x), (5 * PI * PI - 4 * x * (PI - x)) \div SCALE)

\* Math.sin
Sin(a) ==
    IF a = NaN THEN NaN
    ELSE LET r == a % (2 * PI)
         IN  IF r <= PI THEN SinHalf(r) ELSE -SinHalf(r - PI)

\* Math.cos
Cos(a) == IF a = NaN THEN NaN ELSE Sin(a + PI \div 2)

\* the fixed-point number of the integer k
Num(k) == k * SCALE

----------------------------------------------------------------------------
(* Typed arrays: a Float32Array is a function on 0 .. length-1 whose length *)
(* never changes; a read outside it yields undefined (NaN in arithmetic)    *)
(* and a write outside it is dropped.                                       *)

Float32Array(len) == [k \in 0 .. len - 1 |-> 0]

Read(arr, k) == IF k \in DOMAIN arr THEN arr[k] ELSE NaN

Write(arr, k, v) == IF k \in DOMAIN arr THEN [arr EXCEPT ![k] = v] ELSE arr

----------------------------------------------------------------------------
(* The flow-field particle demo                                             *)

PARTICLE_COUNT == MaxParticles

\* window.innerWidth / window.innerHeight: the size at load and the size
\* the browser window may be resized to, in pixels
WindowSizes == <<[innerWidth |-> 800, innerHeight |-> 600],
                 [innerWidth |-> 1024, innerHeight |-> 512]>>

\* Math.random() draws of the initialisation of one particle, already
\* turned into the radius 30 + random * 20 (in 30 .. 50), the angle
\* theta = random * 2 PI and the angle phi = acos(2 * random - 1), which
\* lies strictly between 0 and PI
Draws == {[radius |-> Num(30), theta |-> 0, phi |-> 2020],
          [radius |-> Num(48), theta |-> PI \div 4, phi |-> 1200]}

\* pointer positions of a mousemove, in pixels from the top left corner of
\* the viewport: a point right of the centre, the top right corner
Pointers == {[clientX |-> 760, clientY |-> 300],
             [clientX |-> 799, clientY |-> 0]}

\* for (let i = 0; i < PARTICLE_COUNT; i++)
\* a loop running one particle too far: i <= PARTICLE_COUNT
InLoopInclusive(i) == i <= PARTICLE_COUNT

InLoop(i) == i < PARTICLE_COUNT

\* the position of one particle from its three random draws
InitialPosition(radius, theta, phi) ==
    [x |-> Mul(Mul(radius, Sin(phi)), Cos(theta)),
     y |-> Mul(Mul(radius, Sin(phi)), Sin(theta)),
     z |-> Mul(radius, Cos(phi))]

\* a colour buffer left as the Float32Array was created
NoColor(i) == [r |-> 0, g |-> 0, b |-> 0]

\* the colour gradient of particle i, cyan to magenta
InitialColor(i) ==
    LET t == Div(Num(i), Num(PARTICLE_COUNT))
    IN  [r |-> Add(100, Mul(t, 900)), g |-> Sub(800, Mul(t, 400)), b |-> 900]

\* the three buffers after the initialisation loop, for the draws d[i]
InitialBuffers(d) ==
    [positions |->
        [k \in 0 .. PARTICLE_COUNT * 3 - 1 |->
            LET p == InitialPosition(d[k \div 3].radius, d[k \div 3].theta,
                                     d[k \div 3].phi)
            IN  IF k % 3 = 0 THEN p.x ELSE IF k % 3 = 1 THEN p.y ELSE p.z],
     velocities |-> Float32Array(PARTICLE_COUNT * 3),
     colors |->
        [k \in 0 .. PARTICLE_COUNT * 3 - 1 |->
            LET c == InitialColor(k \div 3)
            IN  IF k % 3 = 0 THEN c.r ELSE IF k % 3 = 1 THEN c.g ELSE c.b]]

\* simplex-like noise (simplified)
noise3d(x, y, z) ==
    LET freq == 20
    IN  Mul(Mul(Sin(Mul(x, freq)), Cos(Mul(y, freq))),
            Sin(Add(Mul(z, freq), Mul(x, 10))))

\* a conversion that keeps the screen's downward y axis
MouseNDCDownward(clientX, clientY, win) ==
    [x |-> Sub(Mul(Div(Num(clientX), Num(win.innerWidth)), Num(2)), Num(1)),
     y |-> Sub(Mul(Div(Num(clientY), Num(win.innerHeight)), Num(2)), Num(1))]

\* the mouse in normalized device coordinates
MouseNDC(clientX, clientY, win) ==
    [x |-> Sub(Mul(Div(Num(clientX), Num(win.innerWidth)), Num(2)), Num(1)),
     y |-> Add(Mul(Neg(Div(Num(clientY), Num(win.innerHeight))), Num(2)),
               Num(1))]

\* velocities[i3] *= 0.98
Damp(v) == Mul(v, 980)

\* an update advancing the position by the velocity before damping
ApplyUndampedVelocity(p, vForced, vDamped) == Add(p, vForced)

\* posArray[i3] += velocities[i3], the velocity read being the stored,
\* damped one (vForced is the velocity before damping)
ApplyVelocity(p, vForced, vDamped) == Add(p, vDamped)

\* posArray[i3] *= 0.99 when the particle was beyond radius 60
Recenter(p, currentDist) == IF Gt(currentDist, Num(60)) THEN Mul(p, 990) ELSE p

\* the mouse-repulsion force on one axis: d is dx or dy
Repulsion(d, dist) ==
    IF Lt(dist, Num(15)) THEN Mul(Div(d, dist), Mul(Sub(Num(15), dist), 20))
    ELSE 0

\* one iteration of the loop of animate for particle i; s holds the two
\* buffers, the indices touched, whether dx / dist ran with dist = 0 and
\* whether the boundary branch (currentDist > 60) was taken
StepParticle(s, i, time, mouse) ==
    LET i3 == i * 3
        x == Read(s.positions, i3)
        y == Read(s.positions, i3 + 1)
        z == Read(s.positions, i3 + 2)
        noiseX == noise3d(Add(x, Mul(time, Num(10))), y, z)
        noiseY == noise3d(x, Add(y, Mul(time, Num(10))), z)
        noiseZ == noise3d(x, y, Add(z, Mul(time, Num(10))))
        dx == Sub(x, Mul(mouse.x, Num(30)))
        dy == Sub(y, Mul(mouse.y, Num(30)))
        dist == Hypot2(dx, dy)
        fx == Add(Add(Read(s.velocities, i3), Mul(noiseX, 20)),
                  Repulsion(dx, dist))
        fy == Add(Add(Read(s.velocities, i3 + 1), Mul(noiseY, 20)),
                  Repulsion(dy, dist))
        fz == Add(Read(s.velocities, i3 + 2), Mul(noiseZ, 20))
        currentDist == Hypot3(x, y, z)
        vel == Write(Write(Write(s.velocities, i3, Damp(fx)),
                           i3 + 1, Damp(fy)), i3 + 2, Damp(fz))
        pos == Write(Write(Write(s.positions,
                   i3, Recenter(ApplyVelocity(x, fx, Read(vel, i3)),
                                currentDist)),
                   i3 + 1, Recenter(ApplyVelocity(y, fy, Read(vel, i3 + 1)),
                                    currentDist)),
                   i3 + 2, Recenter(ApplyVelocity(z, fz, Read(vel, i3 + 2)),
                                    currentDist))
    IN  [positions |-> pos,
         velocities |-> vel,
         accessed |-> s.accessed \cup {i3, i3 + 1, i3 + 2},
         zeroDist |-> s.zeroDist \/ (Lt(dist, Num(15)) /\ dist = 0),
         recentered |-> s.recentered \/ Gt(currentDist, Num(60))]

RECURSIVE ParticleLoop(_, _, _, _)
\* the for loop of animate from particle i on
ParticleLoop(s, i, time, mouse) ==
    IF InLoop(i) THEN ParticleLoop(StepParticle(s, i, time, mouse), i + 1,
                                   time, mouse)
    ELSE s

\* the state when the top level reaches its own call animate(): buffers
\* initialised, the mousemove listener registered, nothing scheduled yet
InitFlow ==
    /\ lab = Off /\ ray = Off /\ phys = Off
    /\ galaxy = Off /\ dbg = Off /\ models = Off /\ render = Off
    /\ \E d \in [0 .. PARTICLE_COUNT - 1 -> Draws] :
        LET w == WindowSizes[1] IN
        flow = [pc |-> "script",
                positions |-> InitialBuffers(d).positions,
                velocities |-> InitialBuffers(d).velocities,
                colors |-> InitialBuffers(d).colors,
                mouse |-> [x |-> 0, y |-> 0],
                time |-> 0,
                rotation |-> [x |-> 0, y |-> 0],
                window |-> w,
                aspect |-> Div(Num(w.innerWidth), Num(w.innerHeight)),
                rendererSize |-> w,
                listeners |-> {"mousemove"},
                raf |-> 0,
                frames |-> 0, events |-> 0,
                accessed |-> {},
                zeroDist |-> FALSE,
                recentered |-> FALSE]

\* animate(): called once by the top level, which then registers the resize
\* listener and ends, and afterwards run by the browser as the pending
\* frame callback
Animate ==
    /\ UNCHANGED <<lab, ray, phys, galaxy, dbg, models, render>>
    /\ \/ flow.pc = "script"
       \/ flow.pc = "loop" /\ flow.raf > 0 /\ flow.frames < MaxFrames
    /\ \E time \in {Add(flow.time, 10)} :
       \E s \in {ParticleLoop([positions |-> flow.positions,
                              velocities |-> flow.velocities,
                              accessed |-> {}, zeroDist |-> FALSE,
                              recentered |-> FALSE],
                             0, time, flow.mouse)} :
           flow' = [flow EXCEPT
                       !.pc = "loop",
                       !.listeners = @ \cup {"resize"},
                       !.raf = IF flow.pc = "script" THEN 1 ELSE @ - 1 + 1,
                       !.frames = IF flow.pc = "script" THEN 0 ELSE @ + 1,
                       !.time = time,
                       !.positions = s.positions,
                       !.velocities = s.velocities,
                       !.accessed = s.accessed,
                       !.zeroDist = s.zeroDist,
                       !.recentered = s.recentered,
                       !.rotation = [y |-> Mul(time, 100),
                                     x |-> Mul(Sin(Mul(time, 500)), 100)]]

\* the mousemove listener, for an event e inside the viewport
MouseMove ==
    /\ UNCHANGED <<lab, ray, phys, galaxy, dbg, models, render>>
    /\ flow.pc = "loop" /\ "mousemove" \in flow.listeners
    /\ flow.events < MaxEvents
    /\ \E e \in Pointers :
          /\ e.clientX < flow.window.innerWidth
          /\ e.clientY < flow.window.innerHeight
          /\ flow' = [flow EXCEPT
                         !.mouse = MouseNDC(e.clientX, e.clientY, flow.window),
                         !.events = @ + 1]

\* the resize listener, after the browser window took another size
Resize ==
    /\ UNCHANGED <<lab, ray, phys, galaxy, dbg, models, render>>
    /\ flow.pc = "loop" /\ "resize" \in flow.listeners
    /\ flow.events < MaxEvents
    /\ \E k \in DOMAIN WindowSizes :
          /\ WindowSizes[k] # flow.window
          /\ flow' = [flow EXCEPT
                         !.window = WindowSizes[k],
                         !.aspect = Div(Num(WindowSizes[k].innerWidth),
                                        Num(WindowSizes[k].innerHeight)),
                         !.rendererSize = WindowSizes[k],
                         !.events = @ + 1]

NextFlow == Animate \/ MouseMove \/ Resize

SpecFlow == InitFlow /\ [][NextFlow]_vars

----------------------------------------------------------------------------
(* The experiment scripts: what each top level registers and starts.

   Every script of the repository is one record: whether its top level
   calls a frame function that re-schedules itself with
   requestAnimationFrame, the window listeners it registers, whether it
   adds lil-gui controls, and the asset loads it issues, each with the
   callbacks the script passes. *)

\* values of window.devicePixelRatio
DevicePixelRatios == {Num(1), Num(3)}

\* window.devicePixelRatio as it is
UncappedPixelRatio(devicePixelRatio) == devicePixelRatio

\* Math.min(window.devicePixelRatio, 2)
PixelRatio(devicePixelRatio) ==
    IF Lt(devicePixelRatio, Num(2)) THEN devicePixelRatio ELSE Num(2)

\* the sizes object of the scripts that do not follow the window
FixedSizes == [innerWidth |-> 800, innerHeight |-> 600]

\* one loader.load(...) call site (calls: how many consecutive calls of the
\* same loader with the same callbacks), with the callbacks given to it
Load(asset, calls, onLoad, onError) ==
    [asset |-> asset, calls |-> calls, onLoad |-> onLoad, onError |-> onError]

\* sizes: "fixed" for a sizes object of 800 x 600, "window" for one taken
\* from the window and kept by the resize listener, "none" for a script
\* that reads the window itself
Script(name, sizes, loop, listeners, gui, loads) ==
    [name |-> name, sizes |-> sizes, loop |-> loop, listeners |-> listeners,
     gui |-> gui, loads |-> loads]

FirstScene == Script("002-first-scene", "fixed", FALSE, {}, FALSE, <<>>)

Transforms == Script("003-transforms", "fixed", FALSE, {}, FALSE, <<>>)

Animations == Script("004-animations", "fixed", TRUE, {}, FALSE, <<>>)

Cameras == Script("005-cameras", "fixed", TRUE, {}, FALSE, <<>>)

Geometries == Script("008-geometries", "window", TRUE, {"resize"}, FALSE, <<>>)

DebugUI == Script("009-debug-ui", "window", TRUE, {"resize"}, TRUE, <<>>)

Textures ==
    Script("010-textures", "window", TRUE, {"resize"}, FALSE,
           <<Load("texture", 8, FALSE, TRUE)>>)

Materials ==
    Script("011-materials", "window", TRUE, {"resize"}, TRUE,
           <<Load("texture", 9, FALSE, FALSE),
             Load("environmentMap", 1, TRUE, FALSE)>>)

Lights == Script("014-lights", "window", TRUE, {"resize"}, TRUE, <<>>)

Shadows == Script("015-shadows", "window", TRUE, {"resize"}, FALSE, <<>>)

HauntedHouse == Script("016-haunted-house", "window", TRUE, {"resize"}, TRUE, <<>>)

Shaders ==
    Script("shaders", "window", TRUE, {"resize"}, TRUE,
           <<Load("texture", 1, FALSE, FALSE)>>)

Text3D ==
    Script("3d-text", "window", TRUE, {"resize"}, FALSE,
           <<Load("texture", 1, FALSE, FALSE), Load("font", 1, TRUE, FALSE)>>)

Particles == Script("017-particles", "window", TRUE, {"resize"}, TRUE, <<>>)

FlowField ==
    Script("flow-field", "none", TRUE, {"mousemove", "resize"}, FALSE, <<>>)

Physics == Script("020-physics", "window", TRUE, {"resize"}, TRUE, <<>>)

ImportedModels ==
    Script("021-imported-models", "window", TRUE, {"resize"}, FALSE,
           <<Load("model", 1, TRUE, TRUE)>>)

Raycaster ==
    Script("raycaster", "window", TRUE, {"mousemove", "click", "resize"}, FALSE, <<>>)

EnvironmentMap ==
    Script("environment-map", "window", TRUE, {"resize"}, TRUE,
           <<Load("environmentMap", 1, TRUE, FALSE),
             Load("model", 1, TRUE, FALSE)>>)

RealisticRender ==
    Script("realistic-render", "window", TRUE, {"resize"}, TRUE,
           <<Load("environmentMap", 1, TRUE, FALSE),
             Load("model", 1, TRUE, FALSE)>>)

AnimatedGalaxy == Script("030-animated-galaxy", "window", TRUE, {"resize"}, TRUE, <<>>)

ModifiedMaterials ==
    Script("031-modified-materials", "window", TRUE, {"resize"}, FALSE,
           <<Load("environmentMap", 1, FALSE, FALSE),
             Load("model", 1, TRUE, FALSE)>>)

Experiments ==
    {FirstScene, Transforms, Animations, Cameras, Geometries, DebugUI,
     Textures, Materials, Lights, Shadows, HauntedHouse, Shaders, Text3D,
     Particles, FlowField, Physics, ImportedModels, Raycaster,
     EnvironmentMap, RealisticRender, AnimatedGalaxy, ModifiedMaterials}

\* the page of experiment e before its script ran
LabInit ==
    /\ flow = Off /\ ray = Off /\ phys = Off
    /\ galaxy = Off /\ dbg = Off /\ models = Off /\ render = Off
    /\ \E e \in Experiments : \E dpr \in DevicePixelRatios :
        lab = [exp |-> e, pc |-> "setup",
               window |-> WindowSizes[1], sizes |-> WindowSizes[1],
               devicePixelRatio |-> dpr, aspect |-> 0,
               renderer |-> [width |-> 0, height |-> 0,
                             pixelRatio |-> Num(1)],
               listeners |-> {}, pending |-> 0, frame |-> FALSE,
               loads |-> [k \in DOMAIN e.loads |-> "unsent"],
               errors |-> {}, writers |-> {}, mouse |-> [x |-> 0, y |-> 0],
               events |-> 0]

\* a top level that renders once and never calls its frame function
NoLoop(e) == 0

\* frame callbacks pending once the top level ended: a looping script ends
\* with its own call tick(), whose requestAnimationFrame schedules one
StartLoop(e) == IF e.loop THEN 1 ELSE 0

\* a frame function that does not call requestAnimationFrame
NoReschedule(pending) == pending - 1

\* a frame: the browser takes the callback off its list and the frame
\* function calls requestAnimationFrame once
Reschedule(pending) == pending - 1 + 1

\* a browser calling listeners that were never registered
AlwaysRegistered(type) == TRUE

\* whether the script registered a window listener for this event type
Registered(type) == type \in lab.listeners

\* an event loop that runs handlers while the script is still running
DispatchAnyTime(l) == TRUE

\* the event loop takes a handler (listener, frame callback, GUI or load
\* callback) only when no script is running: the top level has ended
Dispatch(l) == l.pc = "running"

\* the top level down to const camera.  A script with a sizes object taken
\* from the window has by then registered its window listeners (the resize
\* listener last, just above the camera) and called its loaders; camera
\* and renderer, which the resize listener uses, are not initialised yet.
\* The other scripts register their listeners after camera and renderer.
LabScript ==
    /\ UNCHANGED <<flow, ray, phys, galaxy, dbg, models, render>>
    /\ lab.pc = "setup"
    /\ lab' = [lab EXCEPT
                  !.pc = "script",
                  !.sizes = IF lab.exp.sizes = "fixed" THEN FixedSizes
                            ELSE lab.window,
                  !.listeners = IF lab.exp.sizes = "window"
                                THEN lab.exp.listeners ELSE {},
                  !.loads = [k \in DOMAIN lab.exp.loads |->
                                IF lab.exp.sizes = "window" THEN "pending"
                                ELSE "unsent"]]

\* the rest of the top level, to its end: camera, renderer, the listeners
\* and loads not yet there, and the script's own call of its frame function
LabSetup ==
    /\ UNCHANGED <<flow, ray, phys, galaxy, dbg, models, render>>
    /\ lab.pc = "script"
    /\ lab' = [lab EXCEPT
                  !.pc = "running",
                  !.aspect = Div(Num(lab.sizes.innerWidth),
                                 Num(lab.sizes.innerHeight)),
                  !.renderer =
                      [width |-> lab.sizes.innerWidth,
                       height |-> lab.sizes.innerHeight,
                       pixelRatio |->
                           IF lab.exp.sizes = "fixed" THEN Num(1)
                           ELSE PixelRatio(lab.devicePixelRatio)],
                  !.listeners = lab.exp.listeners,
                  !.loads = [k \in DOMAIN lab.exp.loads |-> "pending"],
                  !.pending = StartLoop(lab.exp),
                  !.writers = IF lab.exp.loop THEN {"frame"} ELSE {}]

\* the browser runs the pending frame callback
LabFrame ==
    /\ UNCHANGED <<flow, ray, phys, galaxy, dbg, models, render>>
    /\ Dispatch(lab) /\ lab.pending > 0
    /\ lab' = [lab EXCEPT
                  !.pending = Reschedule(@),
                  !.frame = ~@,
                  !.writers = @ \cup {"frame"}]

\* the browser window takes another size; the resize listener, where there
\* is one, copies it to sizes, the camera and the renderer
LabResize ==
    /\ UNCHANGED <<flow, ray, phys, galaxy, dbg, models, render>>
    /\ Dispatch(lab) /\ lab.events < MaxLabEvents
    /\ \E k \in DOMAIN WindowSizes : \E dpr \in DevicePixelRatios :
          /\ WindowSizes[k] # lab.window
          /\ lab' = [lab EXCEPT
                        !.window = WindowSizes[k],
                        !.devicePixelRatio = dpr,
                        !.sizes = IF Registered("resize") THEN WindowSizes[k]
                                  ELSE @,
                        !.aspect =
                            IF Registered("resize")
                            THEN Div(Num(WindowSizes[k].innerWidth),
                                     Num(WindowSizes[k].innerHeight))
                            ELSE @,
                        !.renderer =
                            IF Registered("resize")
                            THEN [width |-> WindowSizes[k].innerWidth,
                                  height |-> WindowSizes[k].innerHeight,
                                  pixelRatio |->
                                      IF lab.exp.sizes = "window"
                                      THEN PixelRatio(dpr)
                                      ELSE @.pixelRatio]
                            ELSE @,
                        !.writers = IF Registered("resize")
                                    THEN @ \cup {"resize"} ELSE @,
                        !.events = @ + 1]

\* the pointer moves; the mousemove listener, where there is one, stores it
LabMouseMove ==
    /\ UNCHANGED <<flow, ray, phys, galaxy, dbg, models, render>>
    /\ Dispatch(lab) /\ lab.events < MaxLabEvents
    /\ \E e \in Pointers :
          /\ e.clientX < lab.window.innerWidth
          /\ e.clientY < lab.window.innerHeight
          /\ lab' = [lab EXCEPT
                        !.mouse = IF Registered("mousemove")
                                  THEN MouseNDC(e.clientX, e.clientY, lab.sizes)
                                  ELSE @,
                        !.writers = IF Registered("mousemove")
                                    THEN @ \cup {"mousemove"} ELSE @,
                        !.events = @ + 1]

\* a click; the one click listener of the repository only logs
LabClick ==
    /\ UNCHANGED <<flow, ray, phys, galaxy, dbg, models, render>>
    /\ Dispatch(lab) /\ lab.events < MaxLabEvents
    /\ lab' = [lab EXCEPT !.events = @ + 1]

\* the user changes a lil-gui control, which writes the bound property and
\* calls the onChange / onFinishChange function
LabGuiChange ==
    /\ UNCHANGED <<flow, ray, phys, galaxy, dbg, models, render>>
    /\ Dispatch(lab) /\ lab.exp.gui /\ lab.events < MaxLabEvents
    /\ lab' = [lab EXCEPT !.writers = @ \cup {"gui"}, !.events = @ + 1]

\* load k completes; its onLoad callback, where one was passed, adds the
\* asset to the scene
LabLoadDone ==
    /\ UNCHANGED <<flow, ray, phys, galaxy, dbg, models, render>>
    /\ Dispatch(lab)
    /\ \E k \in DOMAIN lab.loads :
          /\ lab.loads[k] = "pending"
          /\ lab' = [lab EXCEPT
                        !.loads[k] = "loaded",
                        !.writers = IF lab.exp.loads[k].onLoad
                                    THEN @ \cup {"load"} ELSE @]

\* load k fails; its onError callback, where one was passed, logs
LabLoadFail ==
    /\ UNCHANGED <<flow, ray, phys, galaxy, dbg, models, render>>
    /\ Dispatch(lab)
    /\ \E k \in DOMAIN lab.loads :
          /\ lab.loads[k] = "pending"
          /\ lab' = [lab EXCEPT
                        !.loads[k] = "failed",
                        !.errors = IF lab.exp.loads[k].onError
                                   THEN @ \cup {k} ELSE @]

NextLab ==
    \/ LabScript \/ LabSetup \/ LabFrame \/ LabResize \/ LabMouseMove \/ LabClick
    \/ LabGuiChange \/ LabLoadDone \/ LabLoadFail

SpecLab == LabInit /\ [][NextLab]_vars

\* the browser runs a pending frame callback (while the page is shown)
SpecLabFair == LabInit /\ [][NextLab]_vars /\ WF_vars(LabFrame)

----------------------------------------------------------------------------
(* The raycaster experiment: three spheres on a wave, a ray cast from the
   camera through the mouse each frame, hover and click logging.

   Raycaster.setFromCamera / intersectObjects are library calls; they are
   modelled by the geometry they implement for this scene: a sphere is hit
   when the ray passes within its radius at the sphere's depth, and the
   hits come back sorted by distance, nearest first.  The camera is where
   the script puts it (front) or where an OrbitControls drag moved it
   (left, right of the row of spheres). *)

objectsToTest == <<1, 2, 3>>

\* object1.position.x = -2, object2 at the origin, object3.position.x = 2
ObjectX(k) == <<Num(-2), 0, Num(2)>>[k]

\* Math.sin(elapsedTime * rate) * 1.5 with rate 0.3, 0.8, 1.4
WaveY(k, elapsedTime) ==
    Mul(Sin(Mul(elapsedTime, <<300, 800, 1400>>[k])), 1500)

\* seconds between two frames
ElapsedSteps == {100}

Views == {"front", "left", "right"}

\* pointer positions over the canvas
RayPointers ==
    {[clientX |-> 400, clientY |-> 300], [clientX |-> 139, clientY |-> 300],
     [clientX |-> 661, clientY |-> 170]}

\* no intersection: the initial value of currentIntersect
Null == [object |-> 0, distance |-> 0]

\* distance from the camera (at distance 3 from the origin) to sphere k
Depth(view, k) ==
    IF view = "front" THEN Num(3)
    ELSE IF view = "left" THEN Add(Num(3), ObjectX(k))
    ELSE Sub(Num(3), ObjectX(k))

\* the ray of setFromCamera(mouse, camera), field of view 75 degrees, meets
\* sphere k: tan(37.5 degrees) = 0.767, radius 0.5
Hits(view, k, mouse, aspect, y) ==
    LET d == Depth(view, k)
        rx == Mul(Mul(Mul(d, mouse.x), 767), aspect)
        ry == Mul(Mul(d, mouse.y), 767)
        du == Sub(rx, IF view = "front" THEN ObjectX(k) ELSE 0)
        dv == Sub(ry, y[k])
    IN  Lt(Add(Mul(du, du), Mul(dv, dv)), 250)

RECURSIVE SortByDistance(_)
\* the intersections in ascending distance
SortByDistance(set) ==
    IF set = {} THEN <<>>
    ELSE LET n == CHOOSE a \in set : \A b \in set : a.distance <= b.distance
         IN  <<n>> \o SortByDistance(set \ {n})

\* raycaster.intersectObjects(objectsToTest)
intersectObjects(view, mouse, aspect, y) ==
    SortByDistance({[object |-> k, distance |-> Depth(view, k)] :
                       k \in {j \in 1 .. Len(objectsToTest) :
                                 Hits(view, j, mouse, aspect, y)}})

\* the last, farthest intersection
Farthest(intersects) == intersects[Len(intersects)]

\* intersects[0]
Nearest(intersects) == intersects[1]

\* the hover tracking of tick: the lines logged and the new currentIntersect
Hover(intersects, currentIntersect) ==
    IF Len(intersects) # 0
    THEN [log |-> IF currentIntersect = Null THEN <<"Mouse enter">> ELSE <<>>,
          currentIntersect |-> Nearest(intersects)]
    ELSE [log |-> IF currentIntersect # Null THEN <<"Mouse leave">> ELSE <<>>,
          currentIntersect |-> Null]

\* a highlight loop without the reset loop before it
HighlightWithoutReset(intersects) ==
    [k \in 1 .. Len(objectsToTest) |->
        IF \E n \in DOMAIN intersects : intersects[n].object = k
        THEN "#0000ff" ELSE ray.colors[k]]

\* the colours after the reset and highlight loops of tick
Highlight(intersects) ==
    [k \in 1 .. Len(objectsToTest) |->
        IF \E n \in DOMAIN intersects : intersects[n].object = k
        THEN "#0000ff" ELSE "#ff0000"]

\* the intersection recomputed from the mouse as it is now
Recomputed ==
    Hover(intersectObjects(ray.view, ray.mouse, ray.aspect, ray.y),
          Null).currentIntersect

\* what the click listener switches on: the stored currentIntersect
ClickTarget == ray.currentIntersect

\* the line the click listener logs for an intersection, if any
ClickLog(target) ==
    IF target # Null /\ target.object \in 1 .. 3
    THEN <<<<"Clicked object 1", "Clicked object 2",
             "Clicked object 3">>[target.object]>>
    ELSE <<>>

\* the state when the top level reaches its own call tick()
RayInit ==
    /\ flow = Off /\ lab = Off /\ phys = Off
    /\ galaxy = Off /\ dbg = Off /\ models = Off /\ render = Off
    /\ LET w == WindowSizes[1] IN
       ray = [pc |-> "script",
              mouse |-> [x |-> 0, y |-> 0],
              window |-> w,
              sizes |-> [width |-> w.innerWidth, height |-> w.innerHeight],
              aspect |-> Div(Num(w.innerWidth), Num(w.innerHeight)),
              view |-> "front", drag |-> "front",
              elapsedTime |-> 0,
              y |-> [k \in 1 .. 3 |-> 0],
              colors |-> [k \in 1 .. 3 |-> "#ff0000"],
              intersects |-> <<>>,
              currentIntersect |-> Null,
              log |-> <<>>,
              pending |-> 0, frames |-> 0, events |-> 0, last |-> "script"]

\* tick(): called once by the top level, afterwards the pending frame
\* callback
RayTick ==
    /\ UNCHANGED <<flow, lab, phys, galaxy, dbg, models, render>>
    /\ \/ ray.pc = "script"
       \/ ray.pc = "loop" /\ ray.pending > 0 /\ ray.frames < MaxRayFrames
    /\ \E dt \in ElapsedSteps :
       \E t \in {IF ray.pc = "script" THEN 0 ELSE Add(ray.elapsedTime, dt)} :
       \E y \in {[k \in 1 .. 3 |-> WaveY(k, t)]} :
       \E intersects \in {intersectObjects(ray.view, ray.mouse, ray.aspect, y)} :
       \E h \in {Hover(intersects, ray.currentIntersect)} :
          ray' = [ray EXCEPT
                     !.pc = "loop",
                     !.elapsedTime = t,
                     !.y = y,
                     !.intersects = intersects,
                     !.colors = Highlight(intersects),
                     !.log = @ \o h.log,
                     !.currentIntersect = h.currentIntersect,
                     !.view = ray.drag,
                     !.pending = IF ray.pc = "script" THEN 1 ELSE @ - 1 + 1,
                     !.frames = IF ray.pc = "script" THEN 0 ELSE @ + 1,
                     !.last = "tick"]

\* the mousemove listener
RayMouseMove ==
    /\ UNCHANGED <<flow, lab, phys, galaxy, dbg, models, render>>
    /\ ray.pc = "loop" /\ ray.events < MaxRayEvents
    /\ \E e \in RayPointers :
          /\ e.clientX < ray.window.innerWidth
          /\ e.clientY < ray.window.innerHeight
          /\ ray' = [ray EXCEPT
                        !.mouse = MouseNDC(e.clientX, e.clientY,
                                           [innerWidth |-> ray.sizes.width,
                                            innerHeight |-> ray.sizes.height]),
                        !.events = @ + 1, !.last = "mousemove"]

\* the click listener
RayClick ==
    /\ UNCHANGED <<flow, lab, phys, galaxy, dbg, models, render>>
    /\ ray.pc = "loop" /\ ray.events < MaxRayEvents
    /\ ray' = [ray EXCEPT
                  !.log = @ \o ClickLog(ClickTarget),
                  !.events = @ + 1, !.last = "click"]

\* the resize listener, after the browser window took another size
RayResize ==
    /\ UNCHANGED <<flow, lab, phys, galaxy, dbg, models, render>>
    /\ ray.pc = "loop" /\ ray.events < MaxRayEvents
    /\ \E k \in DOMAIN WindowSizes :
          /\ WindowSizes[k] # ray.window
          /\ ray' = [ray EXCEPT
                        !.window = WindowSizes[k],
                        !.sizes = [width |-> WindowSizes[k].innerWidth,
                                   height |-> WindowSizes[k].innerHeight],
                        !.aspect = Div(Num(WindowSizes[k].innerWidth),
                                       Num(WindowSizes[k].innerHeight)),
                        !.events = @ + 1, !.last = "resize"]

\* a drag on the canvas, which OrbitControls turns into a camera move that
\* controls.update() of the next tick applies
RayOrbit ==
    /\ UNCHANGED <<flow, lab, phys, galaxy, dbg, models, render>>
    /\ ray.pc = "loop" /\ ray.events < MaxRayEvents
    /\ \E v \in Views \ {ray.drag} :
          ray' = [ray EXCEPT !.drag = v, !.events = @ + 1, !.last = "orbit"]

NextRay == RayTick \/ RayMouseMove \/ RayClick \/ RayResize \/ RayOrbit

SpecRay == RayInit /\ [][NextRay]_vars

----------------------------------------------------------------------------
(* The physics experiment: a cannon-es world stepped every frame and the
   three.js meshes synchronised with its bodies.

   world.step is a library call; it is modelled by what it does to the
   bodies of this scene: fixed steps of 1/60 s, at most three per frame,
   each letting every body of mass 1 fall under gravity until it meets the
   floor, where it bounces (restitution 0.7) and a box may tip over. *)

Vec3(x, y, z) == [x |-> x, y |-> y, z |-> z]

\* a frame that takes the whole elapsed time for its delta
ElapsedAsDelta(elapsedTime, previousTime) == elapsedTime

\* const deltaTime = elapsedTime - oldElapsedTime (previousTime in the
\* imported models experiment)
DeltaTime(elapsedTime, previousTime) == Sub(elapsedTime, previousTime)

\* the quaternion of a new mesh or body
Identity == [x |-> 0, y |-> 0, z |-> 0, w |-> Num(1)]

\* the quaternion of a box tipped a quarter turn about x
Tipped == [x |-> 707, y |-> 0, z |-> 0, w |-> 707]

\* the floor: a static plane, and its mesh
floorBody ==
    [shape |-> "plane", mass |-> 0, position |-> Vec3(0, 0, 0),
     velocity |-> 0, quaternion |-> [x |-> -707, y |-> 0, z |-> 0, w |-> 707],
     rest |-> 0]

floorMesh ==
    [geometry |-> "plane", position |-> Vec3(0, 0, 0),
     quaternion |-> [x |-> -707, y |-> 0, z |-> 0, w |-> 707],
     scale |-> Vec3(Num(1), Num(1), Num(1))]

\* values of Math.random() for one GUI creation, in call order
RandomDraws == {<<500, 250, 750, 500, 250>>, <<900, 750, 250, 100, 750>>}

\* clock.getElapsedTime() advances by this much between two frames
PhysDeltas == {51}

\* the fixed time step 1 / 60 of world.step
FixedStep == 17

\* objectsToUpdate with nothing pushed
NoPush(list, entry) == list

\* objectsToUpdate.push({ mesh, body })
Push(list, entry) == Append(list, entry)

\* the mesh, the body and the entry one creation adds
Created(p, geometry, scale, shape, rest, position) ==
    [p EXCEPT
        !.meshes = Append(@, [geometry |-> geometry, position |-> position,
                              quaternion |-> Identity, scale |-> scale]),
        !.bodies = Append(@, [shape |-> shape, mass |-> 1,
                              position |-> Vec3(position.x, position.y,
                                                position.z),
                              velocity |-> 0, quaternion |-> Identity,
                              rest |-> rest]),
        !.objectsToUpdate = Push(@, [mesh |-> Len(p.meshes) + 1,
                                     body |-> Len(p.bodies) + 1])]

createSphere(p, radius, position) ==
    Created(p, "sphere", Vec3(radius, radius, radius), "sphere", radius,
            position)

createBox(p, width, height, depth, position) ==
    Created(p, "box", Vec3(width, height, depth), "box", Div(height, Num(2)),
            position)

\* one fixed step of one body; tip says whether a landing box tips over
StepBody(b, tip) ==
    IF b.mass = 0 THEN b
    ELSE LET v == Add(b.velocity, Mul(-9820, FixedStep))
             y == Add(b.position.y, Mul(v, FixedStep))
         IN  IF Lt(y, b.rest)
             THEN [b EXCEPT !.position.y = b.rest,
                            !.velocity = Mul(v, -700),
                            !.quaternion = IF b.shape = "box" /\ tip
                                           THEN Tipped ELSE @]
             ELSE [b EXCEPT !.position.y = y, !.velocity = v]

RECURSIVE InternalSteps(_, _, _)
\* n fixed steps of the world
InternalSteps(bodies, n, tip) ==
    IF n = 0 THEN bodies
    ELSE InternalSteps([k \in DOMAIN bodies |-> StepBody(bodies[k], tip)],
                       n - 1, tip)

\* world.step(1 / 60, deltaTime, 3): the fixed steps that fit into the
\* time accumulated, at most 3
SubSteps(accumulator) ==
    IF accumulator \div FixedStep > 3 THEN 3 ELSE accumulator \div FixedStep

\* the bodies the sync loop would read had it run before world.step
BodiesBeforeStep(before, after) == before

\* the bodies the sync loop reads: those world.step left
BodiesToCopy(before, after) == after

\* the sync loop of tick
SyncMeshes(meshes, objectsToUpdate, bodies) ==
    [m \in DOMAIN meshes |->
        IF \E n \in DOMAIN objectsToUpdate : objectsToUpdate[n].mesh = m
        THEN LET o == objectsToUpdate[
                        CHOOSE n \in DOMAIN objectsToUpdate :
                            objectsToUpdate[n].mesh = m]
             IN  [meshes[m] EXCEPT
                     !.position = bodies[o.body].position,
                     !.quaternion = bodies[o.body].quaternion]
        ELSE meshes[m]]

\* the state when the top level reaches its own call tick(): the floor and
\* the two initial objects
PhysInit ==
    /\ flow = Off /\ lab = Off /\ ray = Off
    /\ galaxy = Off /\ dbg = Off /\ models = Off /\ render = Off
    /\ phys = createBox(
                createSphere(
                  [pc |-> "script",
                   bodies |-> <<floorBody>>, meshes |-> <<floorMesh>>,
                   objectsToUpdate |-> <<>>,
                   elapsedTime |-> 0, oldElapsedTime |-> 0,
                   accumulator |-> 0, deltaTime |-> 0, deltaSum |-> 0,
                   pending |-> 0, frames |-> 0, creations |-> 0,
                   last |-> "script"],
                  500, Vec3(0, Num(3), 0)),
                Num(1), Num(1), Num(1), Vec3(Num(2), Num(3), 0))

\* tick(): called once by the top level, afterwards the pending frame
\* callback
PhysTick ==
    /\ UNCHANGED <<flow, lab, ray, galaxy, dbg, models, render>>
    /\ \/ phys.pc = "script"
       \/ phys.pc = "loop" /\ phys.pending > 0 /\ phys.frames < MaxPhysFrames
    /\ \E dt \in PhysDeltas : \E tip \in BOOLEAN :
       \E elapsedTime \in {IF phys.pc = "script" THEN 0
                           ELSE Add(phys.elapsedTime, dt)} :
       \E deltaTime \in {DeltaTime(elapsedTime, phys.oldElapsedTime)} :
       \E acc \in {phys.accumulator + deltaTime} :
       \E bodies \in {InternalSteps(phys.bodies, SubSteps(acc), tip)} :
          phys' = [phys EXCEPT
                      !.pc = "loop",
                      !.elapsedTime = elapsedTime,
                      !.oldElapsedTime = elapsedTime,
                      !.accumulator = acc % FixedStep,
                      !.deltaTime = deltaTime,
                      !.deltaSum = @ + deltaTime,
                      !.bodies = bodies,
                      !.meshes = SyncMeshes(@, phys.objectsToUpdate,
                                            BodiesToCopy(phys.bodies, bodies)),
                      !.pending = IF phys.pc = "script" THEN 1 ELSE @ - 1 + 1,
                      !.frames = IF phys.pc = "script" THEN 0 ELSE @ + 1,
                      !.last = "tick"]

\* the GUI button createSphere
PhysCreateSphere ==
    /\ UNCHANGED <<flow, lab, ray, galaxy, dbg, models, render>>
    /\ phys.pc = "loop" /\ phys.creations < MaxPhysCreations
    /\ \E r \in RandomDraws :
          phys' = [createSphere(phys, Mul(r[1], 500),
                                Vec3(Mul(Sub(r[2], 500), Num(3)), Num(3),
                                     Mul(Sub(r[3], 500), Num(3))))
                      EXCEPT !.creations = @ + 1, !.last = "createSphere"]

\* the GUI button createBox
PhysCreateBox ==
    /\ UNCHANGED <<flow, lab, ray, galaxy, dbg, models, render>>
    /\ phys.pc = "loop" /\ phys.creations < MaxPhysCreations
    /\ \E r \in RandomDraws :
          phys' = [createBox(phys, r[1], r[2], r[3],
                             Vec3(Mul(Sub(r[4], 500), Num(3)), Num(3),
                                  Mul(Sub(r[5], 500), Num(3))))
                      EXCEPT !.creations = @ + 1, !.last = "createBox"]

NextPhys == PhysTick \/ PhysCreateSphere \/ PhysCreateBox

SpecPhys == PhysInit /\ [][NextPhys]_vars

----------------------------------------------------------------------------
(* The animated galaxy experiment: generateGalaxy replaces the one Points
   object of the scene, tick writes the elapsed time into the uTime uniform
   of the current material.  A generated galaxy is a record of generated;
   geometry, material and points are indices into it, 0 standing for null.
   ops counts the dispose, remove and create operations, so that their
   order can be read from the records. *)

\* the values a GUI control can give its parameter
GalaxyChanges ==
    {[count |-> 100, branches |-> 3], [count |-> 200000, branches |-> 5]}

\* clock.getElapsedTime() advances by this much between two frames
GalaxyDeltas == {16}

\* the old galaxy left in place
KeepOld(g) == g

\* "Destroy old galaxy"
DestroyOld(g) ==
    IF g.points # 0
    THEN [g EXCEPT
             !.generated[g.geometry].geometryDisposed = g.ops + 1,
             !.generated[g.material].materialDisposed = g.ops + 2,
             !.generated[g.points].removed = g.ops + 3,
             !.scene = @ \ {g.points},
             !.ops = @ + 3]
    ELSE g

generateGalaxy(g) ==
    LET d == DestroyOld(g)
        n == Len(d.generated) + 1
    IN  [d EXCEPT
            !.generated =
                Append(@, [created |-> d.ops + 1,
                           positions |-> d.parameters.count * 3,
                           uTime |-> 0,
                           uSize |-> Mul(Num(30), d.renderer.pixelRatio),
                           renderer |-> d.renderer.constructed,
                           geometryDisposed |-> 0, materialDisposed |-> 0,
                           removed |-> 0]),
            !.geometry = n, !.material = n, !.points = n,
            !.scene = @ \cup {n},
            !.ops = @ + 1]

\* the material a closure over the first galaxy would hold
FirstMaterial(g) == 1

\* the material tick reads from the variable material
CurrentMaterial(g) == g.material

\* the top of the script: nothing generated, no renderer
GalaxyInit ==
    /\ flow = Off /\ lab = Off /\ ray = Off /\ phys = Off
    /\ dbg = Off /\ models = Off /\ render = Off
    /\ \E dpr \in DevicePixelRatios :
          galaxy = [pc |-> "start",
                    window |-> WindowSizes[1], devicePixelRatio |-> dpr,
                    sizes |-> [width |-> 0, height |-> 0], aspect |-> 0,
                    renderer |-> [constructed |-> FALSE, width |-> 0,
                                  height |-> 0, pixelRatio |-> Num(1)],
                    parameters |-> [count |-> 200000, branches |-> 3],
                    generated |-> <<>>, scene |-> {},
                    geometry |-> 0, material |-> 0, points |-> 0,
                    ops |-> 0, elapsedTime |-> 0,
                    pending |-> 0, frames |-> 0, events |-> 0,
                    last |-> "start"]

\* the top level down to the renderer: sizes, listener, camera, renderer
GalaxyRenderer ==
    /\ UNCHANGED <<flow, lab, ray, phys, dbg, models, render>>
    /\ galaxy.pc = "start"
    /\ \E sizes \in {[width |-> galaxy.window.innerWidth,
                      height |-> galaxy.window.innerHeight]} :
          galaxy' = [galaxy EXCEPT
                        !.pc = "renderer",
                        !.sizes = sizes,
                        !.aspect = Div(Num(sizes.width), Num(sizes.height)),
                        !.renderer =
                            [constructed |-> TRUE, width |-> sizes.width,
                             height |-> sizes.height,
                             pixelRatio |->
                                 PixelRatio(galaxy.devicePixelRatio)],
                        !.last = "renderer"]

\* the top level's generateGalaxy() and the GUI controls
GalaxyFirst ==
    /\ UNCHANGED <<flow, lab, ray, phys, dbg, models, render>>
    /\ galaxy.pc = "renderer"
    /\ galaxy' = [generateGalaxy(galaxy) EXCEPT
                     !.pc = "gui", !.last = "generateGalaxy"]

\* tick(): called once by the top level, afterwards the pending frame
\* callback; with material null the read of material.uniforms throws and
\* no further frame is requested
GalaxyTick ==
    /\ UNCHANGED <<flow, lab, ray, phys, dbg, models, render>>
    /\ \/ galaxy.pc = "gui"
       \/ /\ galaxy.pc = "loop" /\ galaxy.pending > 0
          /\ galaxy.frames < MaxGalaxyFrames
    /\ \E dt \in GalaxyDeltas :
       \E elapsedTime \in {IF galaxy.pc = "gui" THEN 0
                           ELSE Add(galaxy.elapsedTime, dt)} :
          galaxy' =
              IF CurrentMaterial(galaxy) = 0
              THEN [galaxy EXCEPT !.pc = "crashed", !.pending = 0,
                                  !.last = "tick"]
              ELSE [galaxy EXCEPT
                       !.pc = "loop",
                       !.elapsedTime = elapsedTime,
                       !.generated[CurrentMaterial(galaxy)].uTime =
                           elapsedTime,
                       !.pending = IF galaxy.pc = "gui" THEN 1 ELSE @ - 1 + 1,
                       !.frames = IF galaxy.pc = "gui" THEN 0 ELSE @ + 1,
                       !.last = "tick"]

\* a GUI control finishes a change: the parameter is set and the galaxy
\* generated again
GalaxyGuiChange ==
    /\ UNCHANGED <<flow, lab, ray, phys, dbg, models, render>>
    /\ galaxy.pc = "loop" /\ galaxy.events < MaxGalaxyEvents
    /\ \E c \in GalaxyChanges :
          galaxy' = [generateGalaxy([galaxy EXCEPT !.parameters = c]) EXCEPT
                        !.events = @ + 1, !.last = "generateGalaxy"]

\* the window takes another size or moves to another screen
GalaxyResize ==
    /\ UNCHANGED <<flow, lab, ray, phys, dbg, models, render>>
    /\ galaxy.pc = "loop" /\ galaxy.events < MaxGalaxyEvents
    /\ \E k \in DOMAIN WindowSizes : \E dpr \in DevicePixelRatios :
          /\ WindowSizes[k] # galaxy.window
          /\ galaxy' = [galaxy EXCEPT
                           !.window = WindowSizes[k],
                           !.devicePixelRatio = dpr,
                           !.sizes = [width |-> WindowSizes[k].innerWidth,
                                      height |-> WindowSizes[k].innerHeight],
                           !.aspect = Div(Num(WindowSizes[k].innerWidth),
                                          Num(WindowSizes[k].innerHeight)),
                           !.renderer =
                               [constructed |-> TRUE,
                                width |-> WindowSizes[k].innerWidth,
                                height |-> WindowSizes[k].innerHeight,
                                pixelRatio |-> PixelRatio(dpr)],
                           !.events = @ + 1,
                           !.last = "resize"]

NextGalaxy ==
    \/ GalaxyRenderer \/ GalaxyFirst \/ GalaxyTick
    \/ GalaxyGuiChange \/ GalaxyResize

SpecGalaxy == GalaxyInit /\ [][NextGalaxy]_vars

----------------------------------------------------------------------------
(* The debug UI experiment: the subdivision control of the lil-gui panel
   rebuilds the cube's geometry.  A geometry created for the mesh is a
   record of geometries; meshGeometry is the index of the attached one.
   The control is a lil-gui number controller: an input is snapped to the
   step and clamped to the range before it is written to
   debugObject.subdivision, and onFinishChange runs when the input ends. *)

\* what the user can enter or drag to, as numbers
RawSubdivisions == {-Num(1), 400, Num(1), 2600, Num(5), Num(20), Num(25)}

\* .min(1).max(20).step(1): the value the controller writes for an input
Controlled(raw) ==
    LET snapped == RoundDiv(raw, SCALE)
    IN  IF snapped < 1 THEN 1 ELSE IF snapped > 20 THEN 20 ELSE snapped

\* new THREE.BoxGeometry(1, 1, 1, w, h, d)
BoxGeometry(widthSegments, heightSegments, depthSegments, at) ==
    [segments |-> <<widthSegments, heightSegments, depthSegments>>,
     created |-> at, disposed |-> 0]

\* the old geometry left undisposed
LeakCurrent(d) == d

\* mesh.geometry.dispose()
DisposeCurrent(d) ==
    [d EXCEPT !.geometries[d.meshGeometry].disposed = d.ops + 1,
              !.ops = @ + 1]

\* the onFinishChange handler of the subdivision control
Rebuild(d) ==
    LET x == DisposeCurrent(d)
    IN  [x EXCEPT
            !.geometries = Append(@, BoxGeometry(x.subdivision, x.subdivision,
                                                 x.subdivision, x.ops + 1)),
            !.meshGeometry = Len(x.geometries) + 1,
            !.ops = @ + 1]

\* the state when the top level has run to its end, tick() included
DbgInit ==
    /\ flow = Off /\ lab = Off /\ ray = Off /\ phys = Off
    /\ galaxy = Off /\ models = Off /\ render = Off
    /\ dbg = [pc |-> "loop",
              subdivision |-> 2,
              geometries |-> <<BoxGeometry(2, 2, 2, 1)>>,
              meshGeometry |-> 1,
              visible |-> TRUE,
              changing |-> FALSE,
              ops |-> 1,
              pending |-> 1, frames |-> 0, events |-> 0,
              last |-> "script"]

\* the pending frame callback
DbgTick ==
    /\ UNCHANGED <<flow, lab, ray, phys, galaxy, models, render>>
    /\ dbg.pending > 0 /\ dbg.frames < MaxDbgFrames
    /\ dbg' = [dbg EXCEPT !.pending = @ - 1 + 1, !.frames = @ + 1,
                          !.last = "tick"]

\* the user drags the subdivision slider or types a number: the controller
\* writes the value, the handler has not run yet
DbgInput ==
    /\ UNCHANGED <<flow, lab, ray, phys, galaxy, models, render>>
    /\ dbg.events < MaxDbgEvents
    /\ \E raw \in RawSubdivisions :
          dbg' = [dbg EXCEPT !.subdivision = Controlled(raw),
                             !.changing = TRUE,
                             !.events = @ + 1,
                             !.last = "input"]

\* the input ends: onFinishChange
DbgFinishChange ==
    /\ UNCHANGED <<flow, lab, ray, phys, galaxy, models, render>>
    /\ dbg.changing
    /\ dbg' = [Rebuild(dbg) EXCEPT !.changing = FALSE,
                                   !.last = "finishChange"]

\* the checkbox of mesh.visible
DbgVisible ==
    /\ UNCHANGED <<flow, lab, ray, phys, galaxy, models, render>>
    /\ dbg.events < MaxDbgEvents
    /\ dbg' = [dbg EXCEPT !.visible = ~@, !.events = @ + 1,
                          !.last = "visible"]

NextDbg == DbgTick \/ DbgInput \/ DbgFinishChange \/ DbgVisible

SpecDbg == DbgInit /\ [][NextDbg]_vars

----------------------------------------------------------------------------
(* The imported models experiment: one gltfLoader.load whose callbacks run
   between frames, and a tick that updates the animation mixer once there
   is one.  mixer is 0 for null and 1 for the AnimationMixer. *)

\* gltf.animations.length of the file loaded
ClipCounts == {0, 1, 3}

\* clock.getElapsedTime() advances by this much between two frames
ModelsDeltas == {16, 33}

\* a mixer for every model
AnyClips(animations) == TRUE

\* gltf.animations.length > 0
HasClips(animations) == animations > 0

\* the success callback of the load
OnLoad(m, animations) ==
    [m EXCEPT
        !.load = "loaded",
        !.animations = animations,
        !.logs = @ + (IF HasClips(animations) THEN 2 ELSE 1),
        !.model = [scale |-> 25, added |-> m.model.added + 1],
        !.mixer = IF HasClips(animations) THEN 1 ELSE @,
        !.playing = IF HasClips(animations) THEN 1 ELSE @]

\* an error callback that loads again
RetryOnError(m) ==
    [m EXCEPT !.errors = @ + 1, !.loadCalls = @ + 1, !.load = "pending"]

\* the error callback of the load
OnError(m) == [m EXCEPT !.errors = @ + 1, !.load = "failed"]

\* the state when the top level has run to its end, tick() included: the
\* load is under way and one frame is pending
ModelsInit ==
    /\ flow = Off /\ lab = Off /\ ray = Off /\ phys = Off
    /\ galaxy = Off /\ dbg = Off /\ render = Off
    /\ models = [pc |-> "loop",
                 load |-> "pending", loadCalls |-> 1, animations |-> 0,
                 model |-> [scale |-> Num(1), added |-> 0],
                 mixer |-> 0, playing |-> 0,
                 mixerTime |-> 0, mixerUpdates |-> 0, updated |-> FALSE,
                 logs |-> 0, errors |-> 0, progress |-> 0,
                 elapsedTime |-> 0, previousTime |-> 0,
                 deltaTime |-> 0, deltaSum |-> 0,
                 rendered |-> 1,
                 pending |-> 1, frames |-> 0,
                 last |-> "script"]

\* the pending frame callback
ModelsTick ==
    /\ UNCHANGED <<flow, lab, ray, phys, galaxy, dbg, render>>
    /\ models.pc = "loop"
    /\ models.pending > 0 /\ models.frames < MaxModelsFrames
    /\ \E dt \in ModelsDeltas :
       \E elapsedTime \in {Add(models.elapsedTime, dt)} :
       \E deltaTime \in {DeltaTime(elapsedTime, models.previousTime)} :
          models' = [models EXCEPT
                        !.elapsedTime = elapsedTime,
                        !.previousTime = elapsedTime,
                        !.deltaTime = deltaTime,
                        !.deltaSum = @ + deltaTime,
                        !.mixerTime = IF models.mixer # 0
                                      THEN Add(@, deltaTime) ELSE @,
                        !.mixerUpdates = IF models.mixer # 0
                                         THEN @ + 1 ELSE @,
                        !.updated = models.mixer # 0,
                        !.rendered = @ + 1,
                        !.pending = @ - 1 + 1,
                        !.frames = @ + 1,
                        !.last = "tick"]

\* the progress callback of the load
ModelsProgress ==
    /\ UNCHANGED <<flow, lab, ray, phys, galaxy, dbg, render>>
    /\ models.pc = "loop"
    /\ models.load = "pending" /\ models.progress < MaxModelsProgress
    /\ models' = [models EXCEPT !.progress = @ + 1, !.logs = @ + 1,
                                !.last = "progress"]

\* the load completes
ModelsLoaded ==
    /\ UNCHANGED <<flow, lab, ray, phys, galaxy, dbg, render>>
    /\ models.pc = "loop" /\ models.load = "pending"
    /\ \E animations \in ClipCounts :
          models' = [OnLoad(models, animations) EXCEPT !.last = "loaded"]

\* the load fails
ModelsFailed ==
    /\ UNCHANGED <<flow, lab, ray, phys, galaxy, dbg, render>>
    /\ models.pc = "loop" /\ models.load = "pending"
    /\ models' = [OnError(models) EXCEPT !.last = "failed"]

NextModels == ModelsTick \/ ModelsProgress \/ ModelsLoaded \/ ModelsFailed

SpecModels == ModelsInit /\ [][NextModels]_vars

\* the page of one of the two experiments whose frames take a delta time
FramesInit == PhysInit \/ ModelsInit

NextFrames == NextPhys \/ NextModels

SpecFrames == FramesInit /\ [][NextFrames]_vars

----------------------------------------------------------------------------
(* The realistic render experiment: updateAllMaterials traverses the scene
   after the model load and after every finished tone-mapping change.  The
   scene is the sequence of its objects in traversal order; an object has
   its class, the class of its material, the material's envMapIntensity and
   its two shadow flags. *)

Object3D(type, material, envMapIntensity, castShadow, receiveShadow) ==
    [type |-> type, material |-> material,
     envMapIntensity |-> envMapIntensity,
     castShadow |-> castShadow, receiveShadow |-> receiveShadow]

\* the objects a loaded gltf.scene can bring: groups, meshes with a standard
\* material (with the intensity the file gives them), an unlit mesh, points
GltfScenes ==
    {<<Object3D("Group", "none", 0, FALSE, FALSE),
       Object3D("Mesh", "MeshStandardMaterial", Num(1), FALSE, FALSE),
       Object3D("Mesh", "MeshStandardMaterial", 500, FALSE, FALSE)>>,
     <<Object3D("Group", "none", 0, FALSE, FALSE),
       Object3D("Mesh", "MeshBasicMaterial", 0, FALSE, FALSE),
       Object3D("Mesh", "MeshStandardMaterial", Num(3), TRUE, FALSE),
       Object3D("Points", "PointsMaterial", 0, FALSE, FALSE)>>,
     <<Object3D("Group", "none", 0, FALSE, FALSE)>>}

\* the options of the tone-mapping control
ToneMappings == {"No", "Linear", "Reinhard", "Cineon", "ACESFilmic"}

\* a test of the object's class alone
IsMesh(child) == child.type = "Mesh"

\* child.isMesh && child.material.isMeshStandardMaterial
IsStandardMesh(child) ==
    child.type = "Mesh" /\ child.material = "MeshStandardMaterial"

\* scene.traverse of updateAllMaterials
updateAllMaterials(scene) ==
    [k \in DOMAIN scene |->
        IF IsStandardMesh(scene[k])
        THEN [scene[k] EXCEPT !.envMapIntensity = Num(1),
                              !.castShadow = TRUE,
                              !.receiveShadow = TRUE]
        ELSE scene[k]]

\* the page before the script ran
RenderInit ==
    /\ flow = Off /\ lab = Off /\ ray = Off /\ phys = Off
    /\ galaxy = Off /\ dbg = Off /\ models = Off
    /\ render = [pc |-> "start",
                 defined |-> FALSE,
                 scene |-> <<>>,
                 environment |-> "unsent", model |-> "unsent",
                 toneMapping |-> "No",
                 calls |-> 0, early |-> 0,
                 pending |-> 0, frames |-> 0, events |-> 0,
                 last |-> "start"]

\* the top level, to its end: both loads sent, the light and the camera
\* added, updateAllMaterials defined, the renderer set up, tick() called
RenderScript ==
    /\ UNCHANGED <<flow, lab, ray, phys, galaxy, dbg, models>>
    /\ render.pc = "start"
    /\ render' = [render EXCEPT
                     !.pc = "loop",
                     !.defined = TRUE,
                     !.scene = <<Object3D("DirectionalLight", "none", 0,
                                          TRUE, FALSE),
                                 Object3D("PerspectiveCamera", "none", 0,
                                          FALSE, FALSE)>>,
                     !.environment = "pending", !.model = "pending",
                     !.toneMapping = "ACESFilmic",
                     !.pending = 1,
                     !.last = "script"]

\* the pending frame callback
RenderTick ==
    /\ UNCHANGED <<flow, lab, ray, phys, galaxy, dbg, models>>
    /\ render.pc = "loop"
    /\ render.pending > 0 /\ render.frames < MaxRenderFrames
    /\ render' = [render EXCEPT !.pending = @ - 1 + 1, !.frames = @ + 1,
                                !.last = "tick"]

\* the environment map is loaded
RenderEnvironmentLoaded ==
    /\ UNCHANGED <<flow, lab, ray, phys, galaxy, dbg, models>>
    /\ render.pc = "loop" /\ render.environment = "pending"
    /\ render' = [render EXCEPT !.environment = "loaded",
                                !.last = "environment"]

\* the model is loaded: its scene is added and the materials are updated
RenderModelLoaded ==
    /\ UNCHANGED <<flow, lab, ray, phys, galaxy, dbg, models>>
    /\ render.pc = "loop" /\ render.model = "pending"
    /\ \E gltf \in GltfScenes :
          render' = [render EXCEPT
                        !.model = "loaded",
                        !.scene = updateAllMaterials(@ \o gltf),
                        !.calls = @ + 1,
                        !.early = IF render.defined THEN @ ELSE @ + 1,
                        !.last = "model"]

\* a finished change of the tone-mapping control
RenderToneMapping ==
    /\ UNCHANGED <<flow, lab, ray, phys, galaxy, dbg, models>>
    /\ render.pc = "loop" /\ render.events < MaxRenderEvents
    /\ \E t \in ToneMappings :
          render' = [render EXCEPT
                        !.toneMapping = t,
                        !.scene = updateAllMaterials(@),
                        !.calls = @ + 1,
                        !.early = IF render.defined THEN @ ELSE @ + 1,
                        !.events = @ + 1,
                        !.last = "toneMapping"]

NextRender ==
    \/ RenderScript \/ RenderTick \/ RenderEnvironmentLoaded
    \/ RenderModelLoaded \/ RenderToneMapping

SpecRender == RenderInit /\ [][NextRender]_vars

----------------------------------------------------------------------------
(* Properties of the experiment scripts *)

Running == lab.pc = "running"

\* a frame callback changes hands only in the top level's own call
PendingStep == lab'.pending # lab.pending => lab.pc = "script"

\* C5: in every experiment that runs a frame loop exactly one frame
\* callback is pending between frames, only the start-up ever changes the
\* number pending (a frame takes one and schedules one; no other handler
\* schedules or cancels), and after every frame another frame eventually
\* runs
LabSingleChain ==
    /\ [](Running /\ lab.exp.loop => lab.pending = 1)
    /\ [][PendingStep]_vars
    /\ (Running /\ lab.exp.loop /\ ~lab.frame) ~> lab.frame
    /\ (Running /\ lab.exp.loop /\ lab.frame) ~> ~lab.frame

\* a looping experiment with a frame pending after a GUI change, a
\* completed load and frames run
LabSingleChainWitness ==
    /\ Running /\ lab.exp.loop /\ lab.pending = 1 /\ lab.frame
    /\ {"gui", "load"} \subseteq lab.writers
    /\ lab.events = MaxLabEvents

\* C6 as stated: every script, once its top level ended, has a resize
\* listener registered and a frame callback pending
LabFourStepShape ==
    Running => Registered("resize") /\ lab.pending > 0

\* C6: every script that registers a window resize listener runs the frame
\* loop, one frame callback pending at all times after start-up; the
\* scripts without a loop register no listener at all
LabResizeImpliesLoop ==
    Running =>
        /\ Registered("resize") => lab.exp.loop /\ lab.pending = 1
        /\ ~lab.exp.loop => lab.listeners = {} /\ lab.pending = 0

\* a script with a resize listener, resized, frames running
LabResizeImpliesLoopWitness ==
    /\ Running /\ Registered("resize") /\ "resize" \in lab.writers
    /\ lab.sizes # WindowSizes[1] /\ lab.pending = 1 /\ ~lab.frame

\* C7: every failed asset load was logged with console.error
LabLoadFailureLogged ==
    \A k \in DOMAIN lab.loads : lab.loads[k] = "failed" => k \in lab.errors

----------------------------------------------------------------------------
(* Properties of the raycaster experiment *)

\* the 'Mouse enter' / 'Mouse leave' lines of the log, in order
HoverLines ==
    SelectSeq(ray.log, LAMBDA l : l \in {"Mouse enter", "Mouse leave"})

\* a step that runs tick
TickStep == ray.pc = "script" \/ ray'.frames # ray.frames

\* what a frame logs: enter exactly on a hit with nothing hovered before,
\* leave exactly on a miss with something hovered before
HoverStep ==
    TickStep =>
        LET new == SubSeq(ray'.log, Len(ray.log) + 1, Len(ray'.log))
            hit == Len(ray'.intersects) > 0
            was == ray.currentIntersect # Null
        IN  /\ Len(new) <= 1
            /\ new = <<"Mouse enter">> <=> hit /\ ~was
            /\ new = <<"Mouse leave">> <=> ~hit /\ was

\* enter and leave alternate from an enter on, and currentIntersect is the
\* nearest intersection of the last frame, or null when it had none
HoverState ==
    /\ \A n \in DOMAIN HoverLines :
          HoverLines[n] = IF n % 2 = 1 THEN "Mouse enter" ELSE "Mouse leave"
    /\ ray.currentIntersect # Null <=> Len(ray.intersects) > 0
    /\ Len(ray.intersects) > 0 =>
          /\ ray.currentIntersect = ray.intersects[1]
          /\ \A n \in DOMAIN ray.intersects :
                ray.currentIntersect.distance <= ray.intersects[n].distance

\* C9: a frame logs 'Mouse enter' exactly when the ray hits an object and
\* currentIntersect was null, 'Mouse leave' exactly when it hits nothing and
\* currentIntersect was not null; the two lines alternate, an enter first;
\* after a frame currentIntersect is the nearest intersection or null
RayHover == []HoverState /\ [][HoverStep]_vars

\* enter, leave and enter again were logged, and the last frame's ray went
\* through several spheres
RayHoverWitness ==
    /\ Len(HoverLines) >= 3
    /\ Len(ray.intersects) >= 2
    /\ ray.intersects[1].object # 1

\* a step that runs the click listener
ClickStep == ray'.last = "click" /\ ray'.events # ray.events

\* what a click does: one line for the stored currentIntersect, nothing
\* else
ClickEffect ==
    ClickStep =>
        /\ ray.currentIntersect = Null => ray'.log = ray.log
        /\ \A k \in 1 .. 3 :
              ray.currentIntersect # Null /\ ray.currentIntersect.object = k
                  => ray'.log = Append(ray.log,
                                       <<"Clicked object 1", "Clicked object 2",
                                         "Clicked object 3">>[k])
        /\ ray'.currentIntersect = ray.currentIntersect
        /\ ray'.intersects = ray.intersects
        /\ ray'.y = ray.y /\ ray'.colors = ray.colors
        /\ ray'.mouse = ray.mouse /\ ray'.view = ray.view

\* C10: a click logs 'Clicked object k' iff the currentIntersect stored by
\* the last frame is an intersection with object k, logs nothing when it is
\* null, and changes neither currentIntersect nor any object
RayClickStored == [][ClickEffect]_vars

\* a click logged the object of the last frame although the mouse has since
\* moved to another one
RayClickStoredWitness ==
    /\ ray.last = "click"
    /\ Len(ray.log) > 0 /\ ray.log[Len(ray.log)] = "Clicked object 2"
    /\ Recomputed # Null /\ Recomputed # ray.currentIntersect

----------------------------------------------------------------------------
(* Properties of the flow-field demo *)

Indices == 0 .. 3 * PARTICLE_COUNT - 1

\* the distance from the origin of particle i
Radius(i) ==
    Hypot3(Read(flow.positions, 3 * i), Read(flow.positions, 3 * i + 1),
           Read(flow.positions, 3 * i + 2))

\* C1: every position and velocity component is a finite number, and no
\* frame evaluated dx / dist, dy / dist with dist = 0
FlowFinite ==
    /\ \A k \in DOMAIN flow.positions : IsFinite(flow.positions[k])
    /\ \A k \in DOMAIN flow.velocities : IsFinite(flow.velocities[k])
    /\ ~flow.zeroDist

\* C2: every particle's distance from the origin is a number at most B,
\* for B = 250 (the noise force of at most 0.02 per axis under the 0.98
\* damping keeps the speed below 1 per axis, which the 1% shrink beyond
\* radius 60 outweighs from radius 174 on)
FlowBounded ==
    \A i \in 0 .. PARTICLE_COUNT - 1 :
        IsFinite(Radius(i)) /\ Radius(i) <= Num(250)

\* C3: the three buffers hold exactly 3 * PARTICLE_COUNT entries each and
\* every index a frame read or wrote lies in 0 .. 3 * PARTICLE_COUNT - 1
FlowCountConstant ==
    /\ DOMAIN flow.positions = Indices
    /\ DOMAIN flow.velocities = Indices
    /\ DOMAIN flow.colors = Indices
    /\ flow.accessed \subseteq Indices

\* a frame ran over every particle after a mousemove and a resize
FlowCountWitness ==
    /\ flow.pc = "loop" /\ flow.frames >= 1
    /\ flow.accessed = Indices
    /\ flow.window # WindowSizes[1]
    /\ flow.mouse # [x |-> 0, y |-> 0]

\* the noise argument of axis a (0, 1, 2 for x, y, z) of particle i
NoiseOfAxis(i, a, time) ==
    LET x == flow.positions[3 * i]
        y == flow.positions[3 * i + 1]
        z == flow.positions[3 * i + 2]
        t == Mul(time, Num(10))
    IN  IF a = 0 THEN noise3d(Add(x, t), y, z)
        ELSE IF a = 1 THEN noise3d(x, Add(y, t), z)
        ELSE noise3d(x, y, Add(z, t))

\* the mouse-repulsion force of axis a on particle i (none along z)
RepulsionOfAxis(i, a) ==
    LET dx == Sub(flow.positions[3 * i], Mul(flow.mouse.x, Num(30)))
        dy == Sub(flow.positions[3 * i + 1], Mul(flow.mouse.y, Num(30)))
    IN  IF a = 0 THEN Repulsion(dx, Hypot2(dx, dy))
        ELSE IF a = 1 THEN Repulsion(dy, Hypot2(dx, dy))
        ELSE 0

\* one frame, component by component: the new velocity is the old one plus
\* 0.02 * noise plus repulsion, times 0.98, and the new position is the old
\* one plus that new velocity, then re-centred
FrameStep ==
    flow'.time # flow.time =>
        \A i \in 0 .. PARTICLE_COUNT - 1 : \A a \in 0 .. 2 :
            /\ flow'.velocities[3 * i + a] =
                   Mul(Add(Add(flow.velocities[3 * i + a],
                               Mul(NoiseOfAxis(i, a, flow'.time), 20)),
                           RepulsionOfAxis(i, a)), 980)
            /\ flow'.positions[3 * i + a] =
                   Recenter(Add(flow.positions[3 * i + a],
                                flow'.velocities[3 * i + a]), Radius(i))

\* C4: a frame updates each particle as velocity += 0.02 * noise +
\* repulsion, velocity *= 0.98, position += that damped velocity, then the
\* soft re-centering
FlowFrameOrder == [][FrameStep]_vars

\* a frame that re-centred a particle and left it moving, after a mousemove
FlowFrameWitness ==
    /\ flow.recentered
    /\ flow.mouse # [x |-> 0, y |-> 0]
    /\ \E k \in Indices :
          IsFinite(flow.velocities[k]) /\ flow.velocities[k] # 0

----------------------------------------------------------------------------
(* Properties of the raycaster experiment: highlighting and the mouse *)

\* after a frame an object is blue iff that frame's ray met it
HighlightStep ==
    TickStep =>
        \A k \in 1 .. 3 :
            /\ ray'.colors[k] \in {"#0000ff", "#ff0000"}
            /\ ray'.colors[k] = "#0000ff"
                  <=> Hits(ray.view, k, ray.mouse, ray.aspect, ray'.y)

\* the colours are those of the last frame's intersection list
HighlightState ==
    \A k \in 1 .. 3 :
        ray.colors[k] =
            IF \E n \in DOMAIN ray.intersects : ray.intersects[n].object = k
            THEN "#0000ff" ELSE "#ff0000"

\* C11: at the end of every frame each of the three test objects is blue
\* iff the ray cast in that frame intersects it and red otherwise, so no
\* highlight persists into a frame in which the object is not hit
RayHighlight == []HighlightState /\ [][HighlightStep]_vars

\* object 2, blue after the first frame, is red again while another object
\* is blue
RayHighlightWitness ==
    /\ ray.last = "tick" /\ ray.frames >= 1
    /\ ray.colors[2] = "#ff0000"
    /\ \E k \in {1, 3} : ray.colors[k] = "#0000ff"

\* a step that runs the mousemove listener of the raycaster
RayMouseStep == ray'.last = "mousemove" /\ ray'.events # ray.events

\* the stored mouse is, to the last digit kept, 2 * clientX / width - 1 and
\* -(2 * clientY / height) + 1 for the event's pointer and the sizes object
MouseStep ==
    RayMouseStep =>
        \E e \in RayPointers :
            /\ e.clientX < ray.window.innerWidth
            /\ e.clientY < ray.window.innerHeight
            /\ Abs(ray'.mouse.x
                   - (RoundDiv(2 * e.clientX * SCALE, ray.sizes.width)
                      - Num(1))) <= 1
            /\ Abs(ray'.mouse.y
                   - (Num(1)
                      - RoundDiv(2 * e.clientY * SCALE, ray.sizes.height)))
                  <= 1
            /\ (2 * e.clientY < ray.sizes.height) => ray'.mouse.y > 0
            /\ (2 * e.clientY > ray.sizes.height) => ray'.mouse.y < 0

\* both coordinates lie in [-1, 1], sizes is the window's size, and the
\* mouse is (0, 0) as long as no event arrived
MouseState ==
    /\ ray.mouse.x \in -Num(1) .. Num(1)
    /\ ray.mouse.y \in -Num(1) .. Num(1)
    /\ ray.sizes = [width |-> ray.window.innerWidth,
                    height |-> ray.window.innerHeight]
    /\ ray.events = 0 => ray.mouse = [x |-> 0, y |-> 0]

\* C12: the mouse is stored as x = 2 * clientX / width - 1 and
\* y = -(2 * clientY / height) + 1, both in [-1, 1] for a pointer inside
\* the viewport, y inverted; width and height are the sizes the resize
\* listener wrote last; before any mousemove the mouse is (0, 0)
RayMouseNDC == []MouseState /\ [][MouseStep]_vars

\* a pointer in the upper right of a resized window, stored with y > 0
RayMouseNDCWitness ==
    /\ ray.last = "mousemove"
    /\ ray.sizes.width = WindowSizes[2].innerWidth
    /\ ray.mouse.x > 0 /\ ray.mouse.y > 0

----------------------------------------------------------------------------
(* Properties of the physics experiment *)

PhysTickStep == phys'.last = "tick" /\ (phys.pc = "script" \/ phys'.frames # phys.frames)

PhysCreateStep == phys'.creations # phys.creations

\* every entry's mesh has the position and the quaternion of its body
PhysSynced ==
    \A n \in DOMAIN phys.objectsToUpdate :
        LET o == phys.objectsToUpdate[n]
        IN  /\ phys.meshes[o.mesh].position = phys.bodies[o.body].position
            /\ phys.meshes[o.mesh].quaternion = phys.bodies[o.body].quaternion

\* a frame steps the world by the time since the previous frame and leaves
\* every mesh with what the step produced
PhysFrameSync ==
    PhysTickStep =>
        /\ \E tip \in BOOLEAN :
              phys'.bodies =
                  InternalSteps(phys.bodies,
                                SubSteps(phys.accumulator
                                         + Sub(phys'.elapsedTime,
                                               phys.oldElapsedTime)), tip)
        /\ phys'.oldElapsedTime = phys'.elapsedTime
        /\ phys'.objectsToUpdate = phys.objectsToUpdate
        /\ \A n \in DOMAIN phys'.objectsToUpdate :
              LET o == phys'.objectsToUpdate[n]
              IN  /\ phys'.meshes[o.mesh].position
                        = phys'.bodies[o.body].position
                  /\ phys'.meshes[o.mesh].quaternion
                        = phys'.bodies[o.body].quaternion

\* C13: at the end of every frame the mesh of every entry of objectsToUpdate
\* has the position and the quaternion its body got from that frame's
\* world.step, and an object created from the GUI between two frames is in
\* step with its body from its creation on, so also after the next frame.
PhysSync == [](phys.pc = "loop" => PhysSynced) /\ [][PhysFrameSync]_vars

\* a frame after a GUI creation, with falling bodies and a tipped box
PhysSyncWitness ==
    /\ phys.last = "tick" /\ phys.creations >= 1
    /\ \E n \in DOMAIN phys.objectsToUpdate :
          /\ n > 2
          /\ Lt(phys.meshes[phys.objectsToUpdate[n].mesh].position.y, Num(3))
    /\ \E n \in DOMAIN phys.objectsToUpdate :
          phys.meshes[phys.objectsToUpdate[n].mesh].quaternion = Tipped

\* the meshes and the bodies of the entries, and their pairing
PhysPaired ==
    /\ Len(phys.objectsToUpdate) = 2 + phys.creations
    /\ Len(phys.bodies) = Len(phys.objectsToUpdate) + 1
    /\ Len(phys.meshes) = Len(phys.objectsToUpdate) + 1
    /\ \A m \in 2 .. Len(phys.meshes) :
          Cardinality({n \in DOMAIN phys.objectsToUpdate :
                          phys.objectsToUpdate[n].mesh = m}) = 1
    /\ \A b \in 2 .. Len(phys.bodies) :
          Cardinality({n \in DOMAIN phys.objectsToUpdate :
                          phys.objectsToUpdate[n].body = b}) = 1
    /\ \A n \in DOMAIN phys.objectsToUpdate :
          /\ phys.objectsToUpdate[n].mesh \in 2 .. Len(phys.meshes)
          /\ phys.objectsToUpdate[n].body \in 2 .. Len(phys.bodies)
          /\ phys.bodies[phys.objectsToUpdate[n].body].shape
                = phys.meshes[phys.objectsToUpdate[n].mesh].geometry

\* a creation adds one mesh, one body and one entry; nothing removes one
PhysGrowth ==
    /\ PhysCreateStep =>
          /\ Len(phys'.meshes) = Len(phys.meshes) + 1
          /\ Len(phys'.bodies) = Len(phys.bodies) + 1
          /\ phys'.objectsToUpdate
                = Append(phys.objectsToUpdate,
                         [mesh |-> Len(phys'.meshes),
                          body |-> Len(phys'.bodies)])
    /\ Len(phys'.objectsToUpdate) >= Len(phys.objectsToUpdate)
    /\ \A n \in DOMAIN phys.objectsToUpdate :
          phys'.objectsToUpdate[n] = phys.objectsToUpdate[n]

\* C14: every call of createSphere or createBox adds exactly one mesh to the
\* scene, one body to the world and one entry to objectsToUpdate; the list
\* has the 2 initial objects plus the GUI creations, never shrinks, holds
\* each mesh and each body in exactly one entry, and the world has one body
\* more than the list has entries (the floor).
PhysPairing == []PhysPaired /\ [][PhysGrowth]_vars

\* a GUI creation after a frame: three entries, four bodies
PhysPairingWitness ==
    /\ phys.last \in {"createSphere", "createBox"}
    /\ Len(phys.objectsToUpdate) = 3 /\ Len(phys.bodies) = 4
    /\ phys.frames >= 1

----------------------------------------------------------------------------
(* Properties of the animated galaxy experiment *)

GalaxyGenerated == galaxy.pc \in {"gui", "loop"}

GalaxyTickStep == galaxy'.last = "tick" /\ (galaxy.pc = "gui" \/ galaxy'.frames # galaxy.frames)

GalaxyGenerateStep == Len(galaxy'.generated) # Len(galaxy.generated)

\* one Points object in the scene, the latest; every earlier galaxy was
\* disposed and removed before its successor was created
GalaxyOne ==
    GalaxyGenerated =>
        /\ galaxy.scene = {galaxy.points}
        /\ Cardinality(galaxy.scene) = 1
        /\ galaxy.points = Len(galaxy.generated)
        /\ galaxy.geometry = galaxy.points /\ galaxy.material = galaxy.points
        /\ LET latest == galaxy.generated[galaxy.points]
           IN  /\ latest.geometryDisposed = 0 /\ latest.materialDisposed = 0
               /\ latest.removed = 0
               /\ latest.positions = galaxy.parameters.count * 3
        /\ \A k \in 1 .. Len(galaxy.generated) - 1 :
              LET old == galaxy.generated[k]
                  next == galaxy.generated[k + 1]
              IN  /\ old.geometryDisposed > old.created
                  /\ old.materialDisposed > old.created
                  /\ old.removed > old.created
                  /\ old.geometryDisposed < next.created
                  /\ old.materialDisposed < next.created
                  /\ old.removed < next.created

\* C15: after any sequence of generateGalaxy calls (the initial one and GUI
\* changes, between frames) the scene holds exactly one Points object, the
\* one generated last, and every earlier geometry and material was disposed
\* and its Points removed from the scene before its replacement was created.
GalaxySingle == []GalaxyOne /\ [][GalaxyGenerateStep => Len(galaxy'.generated) = Len(galaxy.generated) + 1]_vars

\* a frame after two GUI regenerations
GalaxySingleWitness ==
    /\ galaxy.last = "tick" /\ galaxy.frames >= 2
    /\ Len(galaxy.generated) = 3 /\ galaxy.scene = {3}
    /\ galaxy.generated[1].removed > 0 /\ galaxy.generated[2].removed > 0

\* generateGalaxy runs with a renderer; frames run with a material
GalaxyOrder ==
    /\ \A k \in DOMAIN galaxy.generated : galaxy.generated[k].renderer
    /\ galaxy.generated # <<>> => galaxy.renderer.constructed
    /\ galaxy.pc # "crashed"
    /\ galaxy.last = "tick" => galaxy.material # 0

\* a frame writes the elapsed time to the current material's uTime; a
\* generated galaxy starts with uTime 0
GalaxyTime ==
    /\ GalaxyTickStep =>
          /\ galaxy.material # 0 /\ galaxy'.material = galaxy.material
          /\ galaxy'.generated[galaxy'.points].uTime = galaxy'.elapsedTime
          /\ \A k \in DOMAIN galaxy.generated :
                k # galaxy.points =>
                    galaxy'.generated[k].uTime = galaxy.generated[k].uTime
    /\ GalaxyGenerateStep =>
          /\ galaxy'.generated[galaxy'.points].uTime = 0
          /\ galaxy'.material = galaxy'.points
          /\ galaxy'.elapsedTime = galaxy.elapsedTime

\* C16: generateGalaxy never runs before the renderer is constructed and no
\* frame runs while material is null; every frame writes the elapsed time
\* into uTime of the material of the galaxy on display, so a regenerated
\* galaxy starts with uTime = 0 and has the current elapsed time from the
\* next frame on.
GalaxyOrdering == []GalaxyOrder /\ [][GalaxyTime]_vars

\* a frame after a regeneration: the new material has the elapsed time, the
\* old one the time of its last frame
GalaxyOrderingWitness ==
    /\ galaxy.last = "tick" /\ Len(galaxy.generated) >= 2
    /\ galaxy.elapsedTime > 0
    /\ galaxy.generated[galaxy.material].uTime = galaxy.elapsedTime
    /\ galaxy.generated[1].uTime < galaxy.elapsedTime

----------------------------------------------------------------------------
(* Properties of the debug UI experiment *)

DbgFinishStep == dbg'.last = "finishChange" /\ Len(dbg'.geometries) # Len(dbg.geometries)

\* one undisposed geometry, the attached one; with no input under way its
\* segment counts are debugObject.subdivision
DbgOne ==
    /\ dbg.subdivision \in 1 .. 20
    /\ {k \in DOMAIN dbg.geometries : dbg.geometries[k].disposed = 0}
          = {dbg.meshGeometry}
    /\ dbg.meshGeometry = Len(dbg.geometries)
    /\ ~dbg.changing =>
          dbg.geometries[dbg.meshGeometry].segments
              = <<dbg.subdivision, dbg.subdivision, dbg.subdivision>>

\* a finished change disposes the attached geometry, then attaches a new
\* one with the subdivision as its three segment counts
DbgRebuild ==
    DbgFinishStep =>
        /\ Len(dbg'.geometries) = Len(dbg.geometries) + 1
        /\ dbg'.geometries[dbg.meshGeometry].disposed > 0
        /\ dbg'.geometries[dbg.meshGeometry].disposed
              < dbg'.geometries[dbg'.meshGeometry].created
        /\ dbg'.geometries[dbg'.meshGeometry].segments
              = <<dbg.subdivision, dbg.subdivision, dbg.subdivision>>
        /\ dbg'.subdivision = dbg.subdivision

\* C17: each finished change of the subdivision control disposes the mesh's
\* current geometry before it assigns a new BoxGeometry, so after any
\* sequence of finished changes exactly one geometry created for the mesh
\* is undisposed, the attached one, and its three segment counts equal
\* debugObject.subdivision, an integer in 1..20.
DbgSubdivision == [](dbg.pc = "loop" => DbgOne) /\ [][DbgRebuild]_vars

\* two finished changes, the last one of an input clamped to 20
DbgSubdivisionWitness ==
    /\ dbg.last = "finishChange" /\ Len(dbg.geometries) = 3
    /\ dbg.subdivision = 20
    /\ dbg.geometries[2].segments # <<20, 20, 20>>
    /\ dbg.geometries[2].disposed > 0

----------------------------------------------------------------------------
(* Properties of the imported models experiment *)

ModelsTickStep == models'.frames # models.frames

ModelsAnimated == models.load = "loaded" /\ models.animations > 0

\* the mixer exists exactly when the model is loaded with a clip; the model
\* is in the scene once, scaled, exactly when it is loaded
ModelsMixer ==
    /\ models.mixer # 0 <=> ModelsAnimated
    /\ models.playing = models.mixer
    /\ models.mixerUpdates > 0 => ModelsAnimated
    /\ models.model.added = (IF models.load = "loaded" THEN 1 ELSE 0)
    /\ models.load = "loaded" => models.model.scale = 25
    /\ models.pending = 1

\* a frame calls mixer.update exactly when the model was loaded with a clip
\* before it, and renders either way
ModelsFrame ==
    ModelsTickStep =>
        /\ models'.updated <=> ModelsAnimated
        /\ models'.mixerUpdates
              = models.mixerUpdates + (IF ModelsAnimated THEN 1 ELSE 0)
        /\ models'.rendered = models.rendered + 1
        /\ models'.mixer = models.mixer

\* C19: under every interleaving of the load's completion with frames,
\* mixer.update is called in a frame only if the model has been loaded with
\* at least one animation clip; before that, and for ever for a model
\* without animations, mixer is null and frames update the controls and
\* render; the model is added to the scene exactly once, at scale 0.025.
ModelsMixerGuard == []ModelsMixer /\ [][ModelsFrame]_vars

\* frames before the load without mixer.update, then a frame with it
ModelsMixerGuardWitness ==
    /\ models.last = "tick" /\ models.updated
    /\ models.mixerUpdates = 1 /\ models.frames = 3
    /\ models.model.added = 1

ModelsFailStep == models'.errors # models.errors

\* after a failed load: one load call, nothing added, no mixer
ModelsFailedState ==
    models.errors > 0 =>
        /\ models.load = "failed" /\ models.errors = 1
        /\ models.loadCalls = 1
        /\ models.model.added = 0 /\ models.mixer = 0
        /\ models.mixerUpdates = 0 /\ ~models.updated
        /\ models.pending = 1

\* the error callback changes nothing but the console; frames after it
\* render without mixer.update
ModelsFailure ==
    /\ ModelsFailStep =>
          [models' EXCEPT !.errors = 0, !.load = "pending",
                          !.last = models.last] = models
    /\ ModelsTickStep /\ models.load = "failed" =>
          /\ ~models'.updated /\ models'.rendered = models.rendered + 1
          /\ models'.load = "failed"

\* C20: when the model fails to load the error callback only logs: no
\* retry, nothing added to the scene, mixer stays null, and the frames go
\* on without mixer.update.
ModelsLoadFailure == []ModelsFailedState /\ [][ModelsFailure]_vars

\* two frames after the failure
ModelsLoadFailureWitness ==
    /\ models.load = "failed" /\ models.last = "tick"
    /\ models.frames >= 2 /\ models.rendered >= 3
    /\ models.progress >= 1

----------------------------------------------------------------------------
(* Properties of the experiment scripts: resize handling *)

LabResizeStep == lab'.window # lab.window

\* sizes is the window, the camera and the renderer follow sizes, the pixel
\* ratio is the smaller of devicePixelRatio and 2
LabFollowsWindow(l) ==
    /\ l.sizes = l.window
    /\ l.aspect = Div(Num(l.sizes.innerWidth), Num(l.sizes.innerHeight))
    /\ l.renderer.width = l.sizes.innerWidth
    /\ l.renderer.height = l.sizes.innerHeight
    /\ l.renderer.pixelRatio
          = (IF l.devicePixelRatio < Num(2) THEN l.devicePixelRatio
             ELSE Num(2))

\* C18 as stated: in every experiment with a sizes object, after every
\* resize event sizes, camera, renderer and pixel ratio follow the window.
LabSizesFollowWindow ==
    [][LabResizeStep /\ lab.exp.sizes # "none" => LabFollowsWindow(lab')]_vars

\* a script whose sizes object is 800 x 600 keeps it, with the renderer's
\* own pixel ratio of 1
LabFixed ==
    /\ lab.sizes = FixedSizes
    /\ lab.renderer.width = 800 /\ lab.renderer.height = 600
    /\ lab.renderer.pixelRatio = Num(1)
    /\ "resize" \notin lab.listeners

LabResizeState ==
    Running =>
        /\ lab.exp.sizes = "window" =>
              LabFollowsWindow(lab) /\ "resize" \in lab.listeners
        /\ lab.exp.sizes = "fixed" => LabFixed
        /\ lab.renderer.pixelRatio <= Num(2)
        /\ lab.aspect
              = Div(Num(lab.renderer.width), Num(lab.renderer.height))

\* C18, amended: in the experiments whose sizes object is taken from the
\* window, after every resize event sizes is the window's inner size,
\* camera.aspect is sizes.width / sizes.height, the renderer has the size of
\* sizes and the pixel ratio min(devicePixelRatio, 2); the experiments with
\* a sizes object of 800 x 600 keep it through every resize event; in every
\* experiment the pixel ratio is at most 2 and the camera aspect matches the
\* renderer size.
LabResizeHandling ==
    /\ []LabResizeState
    /\ [][LabResizeStep =>
             /\ lab.exp.sizes = "window" =>
                    LabFollowsWindow(lab') /\ lab'.sizes # lab.sizes
             /\ lab.exp.sizes = "fixed" => lab'.sizes = lab.sizes]_vars

\* a resize to the second window size on a screen of device pixel ratio 3
LabResizeHandlingWitness ==
    /\ Running /\ lab.exp.sizes = "window" /\ lab.events >= 1
    /\ lab.window = WindowSizes[2] /\ lab.sizes = WindowSizes[2]
    /\ lab.devicePixelRatio = Num(3) /\ lab.renderer.pixelRatio = Num(2)
    /\ lab.aspect = Num(2)

----------------------------------------------------------------------------
(* Properties of the frame delta time, physics and imported models *)

\* the delta of the last frame and the sum of all deltas so far
FrameDeltaState(x, previousTime) ==
    x.pc # "off" =>
        /\ x.deltaTime >= 0
        /\ x.deltaSum = x.elapsedTime
        /\ previousTime = x.elapsedTime

\* a frame's delta is its elapsed time minus the one the frame before
\* recorded
FrameDeltaStep(x, y, previousTime) ==
    x.pc # "off" /\ y.last = "tick" /\ (x.pc = "script" \/ y.frames # x.frames) =>
        /\ y.deltaTime = y.elapsedTime - previousTime
        /\ y.deltaTime >= 0
        /\ y.elapsedTime >= x.elapsedTime

FrameDeltaPhysWitness ==
    /\ phys.pc = "loop" /\ phys.last = "tick" /\ phys.frames = 2
    /\ phys.deltaTime = 51 /\ phys.elapsedTime = 102

----------------------------------------------------------------------------
(* Properties of the flow-field demo: mouse repulsion and frame effect *)

\* the distance of particle i from the repulsion point, in the xy-plane
RepulsionDist(i) ==
    Hypot2(Sub(flow.positions[3 * i], Mul(flow.mouse.x, Num(30))),
           Sub(flow.positions[3 * i + 1], Mul(flow.mouse.y, Num(30))))

\* the force of the coming frame on particle i is as described: none at
\* distance 15 or more, otherwise a finite force away from the repulsion
\* point of magnitude (15 - dist) * 0.02, on x and y only
RepulsionAsClaimed(i) ==
    LET dx == Sub(flow.positions[3 * i], Mul(flow.mouse.x, Num(30)))
        dy == Sub(flow.positions[3 * i + 1], Mul(flow.mouse.y, Num(30)))
        dist == RepulsionDist(i)
        fx == RepulsionOfAxis(i, 0)
        fy == RepulsionOfAxis(i, 1)
        force == Mul(Sub(Num(15), dist), 20)
    IN  /\ \A a \in 0 .. 2 :
              flow'.velocities[3 * i + a] =
                  Damp(Add(Add(flow.velocities[3 * i + a],
                               Mul(NoiseOfAxis(i, a, flow'.time), 20)),
                           IF a = 0 THEN fx ELSE IF a = 1 THEN fy ELSE 0))
        /\ IF Lt(dist, Num(15))
           THEN /\ IsFinite(fx) /\ IsFinite(fy)
                /\ Abs(Hypot2(fx, fy) - force) <= 2
                /\ force <= 300
                /\ fx * dx >= 0 /\ fy * dy >= 0
                /\ Abs(fx * dy - fy * dx) <= 2 * (Abs(dx) + Abs(dy))
           ELSE fx = 0 /\ fy = 0

\* C22: in a frame a particle receives a repulsion force iff its distance in
\* the xy-plane from (30 * mouse.x, 30 * mouse.y) is below 15; the force
\* points away from that point, has magnitude (15 - dist) * 0.02, at most
\* 0.3, and goes to the x and y velocity only; before any mousemove the
\* repulsion point is the origin.
FlowRepulsion ==
    /\ [](flow.events = 0 => flow.mouse = [x |-> 0, y |-> 0])
    /\ [][flow'.time # flow.time =>
             \A i \in 0 .. PARTICLE_COUNT - 1 : RepulsionAsClaimed(i)]_vars

\* the same for every particle that is not on the repulsion point itself
FlowRepulsionOffPoint ==
    /\ [](flow.events = 0 => flow.mouse = [x |-> 0, y |-> 0])
    /\ [][flow'.time # flow.time =>
             \A i \in 0 .. PARTICLE_COUNT - 1 :
                 RepulsionDist(i) # 0 => RepulsionAsClaimed(i)]_vars

\* a frame pushed a particle that was near the repulsion point, not on it
FlowRepulsionNear ==
    /\ flow.frames >= 1 /\ ~flow.zeroDist
    /\ \E i \in 0 .. PARTICLE_COUNT - 1 :
          /\ IsFinite(RepulsionDist(i)) /\ RepulsionDist(i) < Num(15)
          /\ flow.velocities[3 * i] # 0

\* the colour buffer as the initialisation loop wrote it
FlowColors ==
    \A i \in 0 .. PARTICLE_COUNT - 1 :
        LET t == Div(Num(i), Num(PARTICLE_COUNT))
        IN  /\ flow.colors[3 * i] = Add(100, Mul(t, 900))
            /\ flow.colors[3 * i + 1] = Sub(800, Mul(t, 400))
            /\ flow.colors[3 * i + 2] = 900

FlowFrameStep == flow'.time # flow.time

FlowResizeStep == flow'.window # flow.window

FlowMouseStep == flow'.events # flow.events /\ flow'.window = flow.window

\* what each handler leaves alone
FlowEffect ==
    /\ flow'.colors = flow.colors
    /\ FlowFrameStep =>
          /\ flow'.mouse = flow.mouse
          /\ flow'.aspect = flow.aspect
          /\ flow'.rendererSize = flow.rendererSize
          /\ flow'.window = flow.window
          /\ flow'.time = Add(flow.time, 10)
          /\ flow'.rotation.y = Mul(flow'.time, 100)
    /\ FlowMouseStep =>
          /\ flow'.positions = flow.positions
          /\ flow'.velocities = flow.velocities
          /\ flow'.time = flow.time
          /\ flow'.rotation = flow.rotation
          /\ flow'.aspect = flow.aspect
          /\ flow'.rendererSize = flow.rendererSize
          /\ flow'.raf = flow.raf
    /\ FlowResizeStep =>
          /\ flow'.positions = flow.positions
          /\ flow'.velocities = flow.velocities
          /\ flow'.time = flow.time
          /\ flow'.rotation = flow.rotation
          /\ flow'.mouse = flow.mouse
          /\ flow'.raf = flow.raf
          /\ flow'.rendererSize = flow'.window
          /\ flow'.aspect = Div(Num(flow'.window.innerWidth),
                                Num(flow'.window.innerHeight))

\* C23: a frame writes only the position buffer, the velocity buffer, the
\* time counter and the particle system's rotation; the colour buffer is
\* written at initialisation only and no frame, mousemove or resize changes
\* it; a mousemove changes only the stored mouse vector and a resize only
\* the camera and the renderer.
FlowFrameEffect == []FlowColors /\ [][FlowEffect]_vars

\* a frame that moved a particle, after a mousemove and a resize
FlowFrameEffectWitness ==
    /\ flow.frames >= 2
    /\ flow.mouse # [x |-> 0, y |-> 0]
    /\ flow.rendererSize = WindowSizes[2]
    /\ flow.rotation.y = Mul(flow.time, 100) /\ flow.time >= 30
    /\ \E k \in Indices : IsFinite(flow.velocities[k]) /\ flow.velocities[k] # 0
    /\ flow.colors[0] = 100 /\ flow.colors[3] > 100

----------------------------------------------------------------------------
(* Properties of the realistic render experiment *)

RenderCallStep == render'.calls # render.calls

\* what a call leaves of the scene it traversed: standard meshes with the
\* three settings, everything else as it was
RenderUpdated(before, after) ==
    /\ DOMAIN after = DOMAIN before
    /\ \A k \in DOMAIN before :
          IF before[k].type = "Mesh"
             /\ before[k].material = "MeshStandardMaterial"
          THEN /\ after[k].envMapIntensity = Num(1)
               /\ after[k].castShadow /\ after[k].receiveShadow
               /\ after[k].type = "Mesh"
               /\ after[k].material = "MeshStandardMaterial"
          ELSE after[k] = before[k]

RenderCall ==
    RenderCallStep =>
        /\ render.defined /\ render.pc = "loop"
        /\ render'.calls = render.calls + 1
        /\ \E added \in GltfScenes \cup {<<>>} :
              /\ added # <<>> <=> render'.model # render.model
              /\ RenderUpdated(render.scene \o added, render'.scene)
        /\ updateAllMaterials(render'.scene) = render'.scene

\* a call follows the load of the model and every finished change
RenderCalls ==
    /\ render.calls = render.events
                      + (IF render.model = "loaded" THEN 1 ELSE 0)
    /\ render.early = 0
    /\ render.calls > 0 => render.defined

\* C24: updateAllMaterials sets envMapIntensity = 1, castShadow = true and
\* receiveShadow = true on every mesh of the scene whose material is a
\* MeshStandardMaterial and changes nothing on any other object; a second
\* call leaves the scene unchanged; it runs after the model load completes
\* and after every finished tone-mapping change, never before its own
\* definition is initialised.
RenderMaterials == [](render.pc # "off" => RenderCalls) /\ [][RenderCall]_vars

\* a tone-mapping change after the load of the model with an unlit mesh
RenderMaterialsWitness ==
    /\ render.last = "toneMapping" /\ render.calls = 2
    /\ render.model = "loaded" /\ Len(render.scene) = 6
    /\ render.scene[4].material = "MeshBasicMaterial"
    /\ ~render.scene[4].castShadow
    /\ render.scene[5].envMapIntensity = Num(1)
    /\ render.scene[5].receiveShadow
    /\ render.scene[1].castShadow /\ ~render.scene[1].receiveShadow

----------------------------------------------------------------------------
(* Properties of the experiment scripts: deferred handlers *)

\* camera and renderer are initialised
LabInitialised == lab.aspect # 0 /\ lab.renderer.width > 0

\* a step of a handler: not one of the top level
LabHandlerStep == lab'.pc = lab.pc /\ lab' # lab

\* while the top level stands at const camera the handlers of a window
\* sized script are registered and its loads sent, with camera and
\* renderer not initialised; once it has ended everything is initialised
LabDeferredState ==
    /\ lab.pc = "script" /\ lab.exp.sizes = "window" =>
          /\ lab.listeners = lab.exp.listeners /\ "resize" \in lab.listeners
          /\ \A k \in DOMAIN lab.loads : lab.loads[k] = "pending"
          /\ ~LabInitialised
    /\ lab.pc # "running" =>
          /\ lab.writers = {} /\ lab.events = 0 /\ lab.errors = {}
          /\ \A k \in DOMAIN lab.loads : lab.loads[k] \in {"unsent", "pending"}
    /\ lab.pc = "running" => LabInitialised

====
